---- MODULE Spec2Model ----
(***************************************************************************)
(* A model of the gfx host-side GPU abstraction (src/src/gfx.cpp,          *)
(* src/src/gfx_p.hpp): the process-wide context, the per-device resource   *)
(* tables and their handle counters, and the command-list recording state  *)
(* machine.  Every public function of the API is one action; the Vulkan    *)
(* objects behind a resource are abstracted to the calls the code issues   *)
(* to them.                                                                *)
(***************************************************************************)
EXTENDS Bags, FiniteSets, Integers, Sequences, TLC

(***************************************************************************)
(* Bounds of the model.                                                    *)
(***************************************************************************)
\* device ids a context hands out before create_device is no longer explored
MaxDeviceId == 2
\* resource ids per type and device before creation is no longer explored
MaxResourceId == 2
\* successful creation calls (devices included) explored in one process
MaxIssued == 3
\* contexts built by initialise() in one process
MaxEpoch == 2
\* queues requested in DeviceInfo::queueFlags
MaxQueues == 1
\* set layouts of a pipeline (ComputePipelineInfo::descriptorSets)
MaxSets == 1
\* images of a swap chain
MaxImages == 2
\* Vulkan commands issued to one command buffer between two resets
MaxCmds == 3
\* queue families of the physical device
MaxFamilies == 2
\* passes in one render graph
MaxPasses == 2
\* pass objects that replace the pass added first under one name
MaxReplaced == 1
\* vk::SwapchainKHR objects one SwapChain has had
MaxChains == 2
\* vertex attributes of one graphics pipeline
MaxAttributes == 3

VARIABLES
    s_errorCallback,  \* TRUE iff set_error_callback installed a non-empty callback
    s_context,        \* the process-wide Context (exists = FALSE: nullptr)
    lastCall,         \* history: the last public call, its arguments and outcome
    issued,           \* history: bag of the handles returned by creation calls
    epoch,            \* history: number of contexts built so far in the process
    destroyed,        \* history: device ids whose device destroy_device erased
    boundInScope,     \* history: lists on which bind_pipeline bound since their last begin()
    blocked,          \* the fence the calling thread waits for in wait_on_fence, or NoHandle
    requested,        \* history: the descriptor-set layout requests made of the live devices:
                      \* the device, the DescriptorSetInfo passed, the layout handed back
    selection,        \* the queue selection of a Device under construction
    vertexInput,      \* the vertex input state of a GraphicsPipeline under construction
    renderGraph,      \* a RenderGraph of the application, with the calls of its callbacks
    lastTransition    \* history: <<device, image>> -> the last barrier recorded for the image:
                      \* its destination, and whether its source was the destination of the
                      \* barrier recorded before it

vars == <<s_errorCallback, s_context, lastCall, issued, epoch, destroyed, boundInScope, lastTransition, requested, blocked, selection, renderGraph, vertexInput>>

(***************************************************************************)
(* Handles (GFX_DEFINE_HANDLE / GFX_DEFINE_RESOURCE_HANDLE).               *)
(***************************************************************************)
Handle(d, r) == [dev |-> d, res |-> r]

NoHandle == Handle(0, 0)

DeviceIds == 1 .. MaxDeviceId

ResourceIds == 1 .. MaxResourceId

\* handle values a caller may pass: issued ones, stale ones and never issued ones
Handles == { Handle(d, r) : d \in DeviceIds, r \in ResourceIds }

(***************************************************************************)
(* Finite maps (std::unordered_map).                                       *)
(***************************************************************************)
EmptyMap == <<>>

MapPut(m, k, v) == [x \in (DOMAIN m) \cup {k} |-> IF x = k THEN v ELSE m[x]]

MapErase(m, k) == [x \in (DOMAIN m) \ {k} |-> m[x]]

(***************************************************************************)
(* The outcome of a public call.                                           *)
(*   op     : the name of the public function                              *)
(*   ret    : "true" / "false" for bool functions, "void", or "none" when  *)
(*            the call left by an exception                                *)
(*   out    : the handle written to the out-parameter, or NoHandle         *)
(*   out2   : the handle written to the second out-parameter, or NoHandle  *)
(*   err    : the message passed to s_errorCallback, or "none"             *)
(*   cmd    : the Vulkan command issued to the command buffer, or NoCmd    *)
(*   thrown : the exception that left the call, or "none"                  *)
(***************************************************************************)
Call(op, ret, out, err, cmd, thrown) ==
    [op |-> op, ret |-> ret, out |-> out, out2 |-> NoHandle, err |-> err, cmd |-> cmd,
     thrown |-> thrown]

\* Vulkan commands issued to a command buffer
NoCmd == [name |-> "none"]

Cmd(name) == [name |-> name]

Returned(op, ret) == Call(op, ret, NoHandle, "none", NoCmd, "none")

Created(op, out) == Call(op, "true", out, "none", NoCmd, "none")

Threw(op, ex) == Call(op, "none", NoHandle, "none", NoCmd, ex)

\* s_errorCallback(msg) followed by `return`: an empty std::function throws
Reported(op, ret, msg) ==
    IF s_errorCallback
    THEN Call(op, ret, NoHandle, msg, NoCmd, "none")
    ELSE Threw(op, "bad_function_call")

NoCall == Returned("none", "void")

(***************************************************************************)
(* History of issued handles.                                              *)
(***************************************************************************)
Issue(type, on, h) == [epoch |-> epoch, type |-> type, on |-> on, handle |-> h]

IssuedCount == BagCardinality(issued)

CanIssue == IssuedCount < MaxIssued

(***************************************************************************)
(* Context and Device objects.                                             *)
(***************************************************************************)
NullContext ==
    [exists |-> FALSE, valid |-> FALSE, m_nextDeviceId |-> 1, m_deviceMap |-> EmptyMap]

NewContext(instanceOk) ==
    [exists |-> TRUE, valid |-> instanceOk, m_nextDeviceId |-> 1, m_deviceMap |-> EmptyMap]

Context_is_valid == s_context.exists /\ s_context.valid

NewCommandList ==
    [m_hasBegun |-> FALSE, m_boundPipeline |-> 0,
     m_commandBuffer |-> [state |-> "initial", size |-> 0]]

\* m_fenceMap holds the state of each vk::Fence; completed holds the fences whose
\* submission the GPU has executed: their effects are in device memory
NewDevice(d, nQueues) ==
    [m_deviceHandle |-> d,
     m_queues |-> nQueues,
     m_fenceMap |-> EmptyMap, m_nextFenceId |-> 1,
     m_semaphoreMap |-> EmptyMap, m_nextSemaphoreId |-> 1,
     completed |-> {},
     m_commandListMap |-> EmptyMap, m_nextCommandListId |-> 1,
     m_descriptorSetLayoutMap |-> EmptyMap,
     m_pipelineMap |-> EmptyMap, m_nextPipelineId |-> 1,
     m_descriptorSetMap |-> EmptyMap, m_nextDescriptorSetId |-> 1,
     m_bufferMap |-> {}, m_nextBufferId |-> 1,
     m_textureMap |-> EmptyMap, m_nextTextureId |-> 1,
     m_swapChainMap |-> EmptyMap, m_nextSwapChainId |-> 1]

Context_get_device(d) == d \in DOMAIN s_context.m_deviceMap

DeviceOf(d) == s_context.m_deviceMap[d]

\* the context with device d replaced by dev
WithDevice(d, dev) == [s_context EXCEPT !.m_deviceMap[d] = dev]

(***************************************************************************)
(* std::hash<DescriptorSetInfo>: the key of the descriptor-set-layout      *)
(* cache.  A std::size_t is a word of SizeBits bits, least significant     *)
(* bit first; std::hash of an integer or enum is taken as the identity.    *)
(***************************************************************************)
SizeBits == 64

Bits == 1 .. SizeBits

\* the word of a number below 2^16
Word16(n) == [i \in Bits |-> IF i <= 16 THEN (n \div (2 ^ (i - 1))) % 2 ELSE 0]

WordXor(a, b) == [i \in Bits |-> (a[i] + b[i]) % 2]

WordShl(a, k) == [i \in Bits |-> IF i > k THEN a[i - k] ELSE 0]

WordShr(a, k) == [i \in Bits |-> IF i + k <= SizeBits THEN a[i + k] ELSE 0]

RECURSIVE AddFrom(_, _, _, _)
AddFrom(a, b, i, carry) ==
    IF i > SizeBits THEN << >>
    ELSE LET sum == a[i] + b[i] + carry
         IN  <<sum % 2>> \o AddFrom(a, b, i + 1, sum \div 2)

\* addition modulo 2^SizeBits
WordAdd(a, b) == AddFrom(a, b, 1, 0)

\* 0x9e3779b9
GoldenRatio == WordAdd(WordShl(Word16(40503), 16), Word16(31161))

\* seed ^= hasher(value) + 0x9e3779b9 + (seed << 6) + (seed >> 2)
hash_combine(seed, value) ==
    WordXor(seed, WordAdd(WordAdd(WordAdd(Word16(value), GoldenRatio), WordShl(seed, 6)),
                          WordShr(seed, 2)))

RECURSIVE hash_bindings(_, _, _)
hash_bindings(seed, bindings, i) ==
    IF i > Len(bindings) THEN seed
    ELSE hash_bindings(hash_combine(hash_combine(seed, bindings[i].type), bindings[i].count),
                       bindings, i + 1)

hash_DescriptorSetInfo(info) == hash_bindings(hash_combine(Word16(0), Len(info)), info, 1)

\* DescriptorType
eStorageBuffer == 0

eUniformBuffer == 1

\* ShaderStageFlags
ShaderStageFlags_Compute == 1

ShaderStageFlags_Vertex == 2

\* the DescriptorSetInfo values a caller passes (ordered binding lists)
SetInfos ==
    { << >>,
      << [type |-> eStorageBuffer, count |-> 1, shaderStages |-> ShaderStageFlags_Compute] >>,
      << [type |-> eStorageBuffer, count |-> 1, shaderStages |-> ShaderStageFlags_Vertex] >>,
      << [type |-> eStorageBuffer, count |-> 2, shaderStages |-> ShaderStageFlags_Compute] >>,
      << [type |-> eUniformBuffer, count |-> 1, shaderStages |-> ShaderStageFlags_Compute] >>,
      << [type |-> eStorageBuffer, count |-> 1, shaderStages |-> ShaderStageFlags_Compute],
         [type |-> eUniformBuffer, count |-> 1, shaderStages |-> ShaderStageFlags_Compute] >>,
      << [type |-> eUniformBuffer, count |-> 1, shaderStages |-> ShaderStageFlags_Compute],
         [type |-> eStorageBuffer, count |-> 1, shaderStages |-> ShaderStageFlags_Compute] >> }

\* the descriptorSets member of a pipeline info
SetInfoLists == { l \in UNION { [1 .. n -> SetInfos] : n \in 0 .. MaxSets } : TRUE }

(***************************************************************************)
(* Device methods.  Each yields the device after the call and the handle   *)
(* or value it hands back.                                                 *)
(***************************************************************************)
\* createDescriptorSetLayoutUnique: a layout object the device did not hold before,
\* made of the bindings with their type, count and stage flags
NewLayout(dev, info) ==
    [object |-> Cardinality(DOMAIN dev.m_descriptorSetLayoutMap) + 1, bindings |-> info]

\* Device::create_or_get_descriptor_set_layout that creates a layout on every request
Device_create_or_get_descriptor_set_layout_Always(dev, info) ==
    LET hash   == hash_DescriptorSetInfo(info)
        layout == NewLayout(dev, info)
    IN  [device |-> [dev EXCEPT !.m_descriptorSetLayoutMap = MapPut(@, hash, layout)],
         layout |-> layout]

Device_create_or_get_descriptor_set_layout(dev, info) ==
    LET hash  == hash_DescriptorSetInfo(info)
        after == IF hash \notin DOMAIN dev.m_descriptorSetLayoutMap
                 THEN [dev EXCEPT !.m_descriptorSetLayoutMap =
                                      MapPut(@, hash, NewLayout(dev, info))]
                 ELSE dev
    IN  [device |-> after, layout |-> after.m_descriptorSetLayoutMap[hash]]

RECURSIVE CreateLayouts(_, _, _)
\* the loop over the descriptorSets of a pipeline info
CreateLayouts(dev, infos, i) ==
    IF i > Len(infos) THEN [device |-> dev, layouts |-> << >>]
    ELSE LET one  == Device_create_or_get_descriptor_set_layout(dev, infos[i])
             rest == CreateLayouts(one.device, infos, i + 1)
         IN  [device |-> rest.device, layouts |-> <<one.layout>> \o rest.layouts]

Device_create_pipeline(dev, type, infos) ==
    LET id == dev.m_nextPipelineId
        l  == CreateLayouts(dev, infos, 1)
    IN  [device |-> [l.device EXCEPT
                        !.m_pipelineMap = MapPut(@, id, [m_pipelineType |-> type,
                                                         m_setLayouts |-> l.layouts]),
                        !.m_nextPipelineId = @ + 1],
         handle |-> Handle(dev.m_deviceHandle, id),
         requests |-> [i \in DOMAIN infos |-> [info |-> infos[i], layout |-> l.layouts[i]]]]

Device_create_command_list(dev) ==
    LET id == dev.m_nextCommandListId
    IN  [device |-> [dev EXCEPT !.m_commandListMap = MapPut(@, id, NewCommandList),
                                !.m_nextCommandListId = @ + 1],
         handle |-> Handle(dev.m_deviceHandle, id)]

Device_create_descriptor_set_from_pipeline(dev) ==
    LET id == dev.m_nextDescriptorSetId
    IN  [device |-> [dev EXCEPT !.m_descriptorSetMap = MapPut(@, id, EmptyMap),
                                !.m_nextDescriptorSetId = @ + 1],
         handle |-> Handle(dev.m_deviceHandle, id)]

\* Device::create_buffer that does not advance m_nextBufferId
Device_create_buffer_SameId(dev) ==
    LET id == dev.m_nextBufferId
    IN  [device |-> [dev EXCEPT !.m_bufferMap = @ \cup {id}],
         handle |-> Handle(dev.m_deviceHandle, id)]

Device_create_buffer(dev) ==
    LET id == dev.m_nextBufferId
    IN  [device |-> [dev EXCEPT !.m_bufferMap = @ \cup {id},
                                !.m_nextBufferId = @ + 1],
         handle |-> Handle(dev.m_deviceHandle, id)]

\* Texture::Texture stores the image it created and never assigns m_layout
NewTexture(id) == [m_image |-> id, m_layout |-> "indeterminate"]

Device_create_texture(dev) ==
    LET id == dev.m_nextTextureId
    IN  [device |-> [dev EXCEPT !.m_textureMap = MapPut(@, id, NewTexture(id)),
                                !.m_nextTextureId = @ + 1],
         handle |-> Handle(dev.m_deviceHandle, id)]

Device_create_fence(dev) ==
    LET id == dev.m_nextFenceId
    IN  [device |-> [dev EXCEPT !.m_fenceMap = MapPut(@, id, "unsignaled"),
                                !.m_nextFenceId = @ + 1],
         handle |-> Handle(dev.m_deviceHandle, id)]

RECURSIVE WrapImages(_, _)
\* SwapChain::resize: one Texture per image of the new chain
WrapImages(dev, n) ==
    IF n = 0 THEN [device |-> dev, handles |-> << >>]
    ELSE LET one  == Device_create_texture(dev)
             rest == WrapImages(one.device, n - 1)
         IN  [device |-> rest.device, handles |-> <<one.handle>> \o rest.handles]

\* a SwapChain before its constructor body runs: no vk::SwapchainKHR, no images.
\* m_swapChain numbers the chains the object has had; acquired is history: the chain
\* m_imageIndex was acquired from
NewSwapChain ==
    [m_swapChain |-> 0, m_imageHandles |-> << >>, m_imageIndex |-> 0,
     m_fence |-> "unsignaled", acquired |-> 0]

\* the Vulkan calls of one member function, in the order made
VkCall(name, sc) == [name |-> name, swapChain |-> sc.m_swapChain, index |-> sc.m_imageIndex,
                     fence |-> sc.m_fence]

\* Device::destroy_texture: the body is empty
Device_destroy_texture(dev, textureHandle) == dev

RECURSIVE DestroyTextures(_, _)
DestroyTextures(dev, handles) ==
    IF handles = << >> THEN dev
    ELSE DestroyTextures(Device_destroy_texture(dev, Head(handles)), Tail(handles))

\* SwapChain::cleanup: Device::destroy_texture for each image handle, then clear()
SwapChain_cleanup(dev, sc) ==
    [device |-> DestroyTextures(dev, sc.m_imageHandles),
     swapChain |-> [sc EXCEPT !.m_imageHandles = << >>]]

\* SwapChain::resize: cleanup, a new chain of nImages images, one Texture per image
SwapChain_resize(dev, sc, nImages) ==
    LET c == SwapChain_cleanup(dev, sc)
        w == WrapImages(c.device, nImages)
    IN  [device |-> w.device,
         swapChain |-> [c.swapChain EXCEPT !.m_swapChain = @ + 1,
                                           !.m_imageHandles = w.handles]]

\* SwapChain::acquire_next_image_index: acquireNextImageKHR hands out index and signals
\* m_fence, waitForFences returns on the signal, resetFences unsignals the fence
SwapChain_acquire_next_image_index(sc, index) ==
    LET acquiring == [sc EXCEPT !.m_imageIndex = index, !.acquired = sc.m_swapChain,
                                !.m_fence = "signaled"]
        reset == [acquiring EXCEPT !.m_fence = "unsignaled"]
    IN  [swapChain |-> reset,
         calls |-> <<VkCall("acquireNextImageKHR", sc), VkCall("waitForFences", acquiring),
                     VkCall("resetFences", acquiring)>>]

\* present() that acquires the next image before it presents the current one
SwapChain_present_AcquireFirst(sc, index) ==
    LET a == SwapChain_acquire_next_image_index(sc, index)
    IN  [swapChain |-> a.swapChain,
         calls |-> a.calls \o <<VkCall("presentKHR", a.swapChain)>>]

\* SwapChain::present: presentKHR of m_imageIndex, then acquire_next_image_index
SwapChain_present(sc, index) ==
    LET a == SwapChain_acquire_next_image_index(sc, index)
    IN  [swapChain |-> a.swapChain,
         calls |-> <<VkCall("presentKHR", sc)>> \o a.calls]

\* SwapChain::SwapChain run by Device::create_swap_chain: resize, then acquire
Device_create_swap_chain(dev, nImages, index) ==
    LET id == dev.m_nextSwapChainId
        r  == SwapChain_resize(dev, NewSwapChain, nImages)
        a  == SwapChain_acquire_next_image_index(r.swapChain, index)
    IN  [device |-> [r.device EXCEPT
                        !.m_swapChainMap = MapPut(@, id, a.swapChain),
                        !.m_nextSwapChainId = @ + 1],
         handle |-> Handle(dev.m_deviceHandle, id)]

(***************************************************************************)
(* Public header: error callback, context and device lifecycle.            *)
(***************************************************************************)
set_error_callback(installed) ==
    /\ s_errorCallback' = installed
    /\ lastCall' = Returned("set_error_callback", "void")
    /\ UNCHANGED <<s_context, issued, epoch, destroyed, boundInScope, lastTransition, requested, blocked, selection, renderGraph, vertexInput>>

\* Context::Context run by initialise(): instance, then debug messenger
initialise(instanceOk, messengerOk) ==
    IF s_context.exists
    THEN /\ lastCall' = Returned("initialise", "false")
         /\ UNCHANGED <<s_errorCallback, s_context, issued, epoch, destroyed, boundInScope, lastTransition, requested, blocked, selection, renderGraph, vertexInput>>
    ELSE IF ~s_errorCallback /\ (~instanceOk \/ ~messengerOk)
    THEN \* the constructor throws: make_unique never returns, s_context stays null
         /\ lastCall' = Threw("initialise", "bad_function_call")
         /\ UNCHANGED <<s_errorCallback, s_context, issued, epoch, destroyed, boundInScope, lastTransition, requested, blocked, selection, renderGraph, vertexInput>>
    ELSE /\ epoch < MaxEpoch
         /\ epoch' = epoch + 1
         /\ s_context' = NewContext(instanceOk)
         /\ lastCall' = IF ~instanceOk
                        THEN Call("initialise", "false", NoHandle,
                                  "Failed to create Vulkan instance!", NoCmd, "none")
                        ELSE IF ~messengerOk
                        THEN Call("initialise", "true", NoHandle,
                                  "Failed to create Vulkan debug messenger!", NoCmd, "none")
                        ELSE Returned("initialise", "true")
         /\ UNCHANGED <<s_errorCallback, issued, destroyed, boundInScope, lastTransition, requested, blocked, selection, renderGraph, vertexInput>>

shutdown ==
    /\ s_context' = NullContext
    /\ lastCall' = Returned("shutdown", "void")
    /\ lastTransition' = EmptyMap
    /\ requested' = {}
    /\ UNCHANGED <<s_errorCallback, issued, epoch, destroyed, boundInScope, blocked, selection, renderGraph, vertexInput>>

\* what the Vulkan loader answers to Device::Device
DeviceOutcomes == {"ok", "GFX - There are no devices!", "GFX - Failed to create device!"}

Context_create_device(nQueues) ==
    LET deviceHandle == s_context.m_nextDeviceId
    IN  [context |-> [s_context EXCEPT
                         !.m_nextDeviceId = @ + 1,
                         !.m_deviceMap = MapPut(@, deviceHandle, NewDevice(deviceHandle, nQueues))],
         handle |-> Handle(deviceHandle, 0)]

\* create_device whose failed call uses up the device id
create_device_FailureTakesId(outcome, nQueues) ==
    /\ Context_is_valid
    /\ IF outcome # "ok"
       THEN /\ lastCall' = Reported("create_device", "false", outcome)
            /\ s_context' = [s_context EXCEPT !.m_nextDeviceId = @ + 1]
            /\ UNCHANGED <<s_errorCallback, issued, epoch, destroyed, boundInScope, lastTransition, requested, blocked, selection, renderGraph, vertexInput>>
       ELSE LET r == Context_create_device(nQueues)
            IN  /\ s_context.m_nextDeviceId <= MaxDeviceId
                /\ CanIssue
                /\ s_context' = r.context
                /\ lastCall' = Created("create_device", r.handle)
                /\ issued' = issued (+) SetToBag({Issue("device", 0, r.handle)})
                /\ UNCHANGED <<s_errorCallback, epoch, destroyed, boundInScope, lastTransition, requested, blocked, selection, renderGraph, vertexInput>>

create_device(outcome, nQueues) ==
    /\ Context_is_valid
    /\ IF outcome # "ok"
       THEN \* Device::Device reports and returns an invalid device
            /\ lastCall' = Reported("create_device", "false", outcome)
            /\ UNCHANGED <<s_errorCallback, s_context, issued, epoch, destroyed, boundInScope, lastTransition, requested, blocked, selection, renderGraph, vertexInput>>
       ELSE LET r == Context_create_device(nQueues)
            IN  /\ s_context.m_nextDeviceId <= MaxDeviceId
                /\ CanIssue
                /\ s_context' = r.context
                /\ lastCall' = Created("create_device", r.handle)
                /\ issued' = issued (+) SetToBag({Issue("device", 0, r.handle)})
                /\ UNCHANGED <<s_errorCallback, epoch, destroyed, boundInScope, lastTransition, requested, blocked, selection, renderGraph, vertexInput>>

Context_destroy_device(d) ==
    IF d \in DOMAIN s_context.m_deviceMap
    THEN [s_context EXCEPT !.m_deviceMap = MapErase(@, d)]
    ELSE s_context

\* the fences of device d whose submission the GPU has not completed
Pending(d) ==
    IF Context_get_device(d)
    THEN { f \in DOMAIN DeviceOf(d).m_fenceMap : DeviceOf(d).m_fenceMap[f] = "unsignaled" }
    ELSE {}

\* history: the submissions that were cut off by the destruction of their device
Destroyed(pending) ==
    [Returned("destroy_device", "void") EXCEPT
        !.cmd = IF pending = {} THEN NoCmd ELSE [name |-> "destroy", pending |-> pending]]

\* destroy_device that lets the queues of the device run idle before it erases it
destroy_device_Waits(d) ==
    /\ Context_is_valid
    /\ s_context' = Context_destroy_device(d)
    /\ lastCall' = Destroyed({})
    /\ destroyed' = IF Context_get_device(d) THEN destroyed \cup {d} ELSE destroyed
    /\ lastTransition' = [k \in {x \in DOMAIN lastTransition : x[1] # d} |-> lastTransition[k]]
    /\ requested' = {q \in requested : q.dev # d}
    /\ UNCHANGED <<s_errorCallback, issued, epoch, boundInScope, blocked, selection, renderGraph, vertexInput>>

\* Context::destroy_device erases the device at once: ~Device waits for nothing
destroy_device(d) ==
    /\ Context_is_valid
    /\ s_context' = Context_destroy_device(d)
    /\ lastCall' = Destroyed(Pending(d))
    /\ destroyed' = IF Context_get_device(d) THEN destroyed \cup {d} ELSE destroyed
    /\ lastTransition' = [k \in {x \in DOMAIN lastTransition : x[1] # d} |-> lastTransition[k]]
    /\ requested' = {q \in requested : q.dev # d}
    /\ UNCHANGED <<s_errorCallback, issued, epoch, boundInScope, blocked, selection, renderGraph, vertexInput>>

(***************************************************************************)
(* Public header: creation of device resources.                            *)
(***************************************************************************)
\* a public call that returns without a side effect
Unchanged(op, ret) ==
    /\ lastCall' = Returned(op, ret)
    /\ UNCHANGED <<s_errorCallback, s_context, issued, epoch, destroyed, boundInScope, lastTransition, requested, blocked, selection, renderGraph, vertexInput>>

\* the layout requests a Device method made while it ran
Requests(d, r) ==
    IF "requests" \in DOMAIN r
    THEN {[dev |-> d, info |-> r.requests[i].info, layout |-> r.requests[i].layout] :
             i \in DOMAIN r.requests}
    ELSE {}

\* a public call whose Device method created a resource
Create(op, type, d, r) ==
    /\ CanIssue
    /\ r.handle.res <= MaxResourceId
    /\ s_context' = WithDevice(d, r.device)
    /\ lastCall' = Created(op, r.handle)
    /\ issued' = issued (+) SetToBag({Issue(type, d, r.handle)})
    /\ requested' = requested \cup Requests(d, r)
    /\ UNCHANGED <<s_errorCallback, epoch, destroyed, boundInScope, lastTransition, blocked, selection, renderGraph, vertexInput>>

create_command_list(d, queueIndex) ==
    /\ Context_is_valid
    /\ IF ~Context_get_device(d)
       THEN Unchanged("create_command_list", "false")
       ELSE IF queueIndex >= DeviceOf(d).m_queues
       THEN \* m_queueFamilies.at(queueIndex) throws
            /\ lastCall' = Threw("create_command_list", "out_of_range")
            /\ UNCHANGED <<s_errorCallback, s_context, issued, epoch, destroyed, boundInScope, lastTransition, requested, blocked, selection, renderGraph, vertexInput>>
       ELSE Create("create_command_list", "command_list", d,
                   Device_create_command_list(DeviceOf(d)))

create_compute_pipeline(d, infos) ==
    /\ Context_is_valid
    /\ IF ~Context_get_device(d)
       THEN Unchanged("create_compute_pipeline", "false")
       ELSE Create("create_compute_pipeline", "pipeline", d,
                   Device_create_pipeline(DeviceOf(d), "eCompute", infos))

create_graphics_pipeline(d, infos) ==
    /\ Context_is_valid
    /\ IF ~Context_get_device(d)
       THEN Unchanged("create_graphics_pipeline", "false")
       ELSE Create("create_graphics_pipeline", "pipeline", d,
                   Device_create_pipeline(DeviceOf(d), "eGraphics", infos))

Device_get_pipeline(dev, h) == h.res \in DOMAIN dev.m_pipelineMap

create_descriptor_set_from_pipeline(h, set) ==
    /\ Context_is_valid
    /\ IF ~Context_get_device(h.dev)
       THEN Unchanged("create_descriptor_set_from_pipeline", "false")
       ELSE IF ~Device_get_pipeline(DeviceOf(h.dev), h)
       THEN Unchanged("create_descriptor_set_from_pipeline", "false")
       ELSE IF set >= Len(DeviceOf(h.dev).m_pipelineMap[h.res].m_setLayouts)
       THEN \* m_setLayouts.at(set) throws
            /\ lastCall' = Threw("create_descriptor_set_from_pipeline", "out_of_range")
            /\ UNCHANGED <<s_errorCallback, s_context, issued, epoch, destroyed, boundInScope, lastTransition, requested, blocked, selection, renderGraph, vertexInput>>
       ELSE Create("create_descriptor_set_from_pipeline", "descriptor_set", h.dev,
                   Device_create_descriptor_set_from_pipeline(DeviceOf(h.dev)))

create_buffer(d) ==
    /\ Context_is_valid
    /\ IF ~Context_get_device(d)
       THEN Unchanged("create_buffer", "false")
       ELSE Create("create_buffer", "buffer", d,
                   Device_create_buffer(DeviceOf(d)))

create_texture(d) ==
    /\ Context_is_valid
    /\ IF ~Context_get_device(d)
       THEN Unchanged("create_texture", "false")
       ELSE Create("create_texture", "texture", d,
                   Device_create_texture(DeviceOf(d)))

create_swap_chain(d, nImages, index) ==
    /\ Context_is_valid
    /\ IF ~Context_get_device(d)
       THEN Unchanged("create_swap_chain", "false")
       ELSE /\ DeviceOf(d).m_nextTextureId + nImages - 1 <= MaxResourceId
            /\ Create("create_swap_chain", "swap_chain", d,
                      Device_create_swap_chain(DeviceOf(d), nImages, index))

Device_get_command_list(dev, h) == h.res \in DOMAIN dev.m_commandListMap

\* Device::submit_command_list that creates a fence for every submission
Device_submit_command_list_AlwaysFence(dev, h, wantFence, wantSemaphore) ==
    IF h.res \notin DOMAIN dev.m_commandListMap
    THEN [device |-> dev, ret |-> "false", fence |-> NoHandle, semaphore |-> NoHandle,
          signalSemaphores |-> {}]
    ELSE LET f == Device_create_fence(dev)
         IN  [device |-> f.device, ret |-> "true", fence |-> f.handle, semaphore |-> NoHandle,
              signalSemaphores |-> {}]

\* Device::submit_command_list: the fence is created when outFenceHandle is not null;
\* for outSemaphoreHandle there is a TODO only: signalSemaphore stays null, nothing is
\* written to the out-parameter and queue.submit is given no semaphore to signal
Device_submit_command_list(dev, h, wantFence, wantSemaphore) ==
    IF h.res \notin DOMAIN dev.m_commandListMap
    THEN [device |-> dev, ret |-> "false", fence |-> NoHandle, semaphore |-> NoHandle,
          signalSemaphores |-> {}]
    ELSE LET f == IF wantFence THEN Device_create_fence(dev)
                  ELSE [device |-> dev, handle |-> NoHandle]
         IN  [device |-> f.device, ret |-> "true", fence |-> f.handle, semaphore |-> NoHandle,
              signalSemaphores |-> {}]

\* the public function drops the result of Device::submit_command_list
submit_command_list(h, wantFence, wantSemaphore) ==
    /\ Context_is_valid
    /\ IF ~Context_get_device(h.dev)
       THEN Unchanged("submit_command_list", "void")
       ELSE LET r == Device_submit_command_list(DeviceOf(h.dev), h, wantFence, wantSemaphore)
            IN  /\ r.fence # NoHandle => CanIssue /\ r.fence.res <= MaxResourceId
                /\ s_context' = WithDevice(h.dev, r.device)
                /\ lastCall' = [Call("submit_command_list", "void", r.fence,
                                     "none", NoCmd, "none") EXCEPT !.out2 = r.semaphore]
                /\ issued' = IF r.fence # NoHandle
                             THEN issued (+) SetToBag({Issue("fence", h.dev, r.fence)})
                             ELSE issued
                /\ UNCHANGED <<s_errorCallback, epoch, destroyed, boundInScope, lastTransition, requested, blocked, selection, renderGraph, vertexInput>>

\* the GPU finishes the submission that fence f of device d was submitted with
gpu_completes(d, f) ==
    /\ Context_is_valid
    /\ Context_get_device(d)
    /\ f \in DOMAIN DeviceOf(d).m_fenceMap
    /\ DeviceOf(d).m_fenceMap[f] = "unsignaled"
    /\ s_context' = [s_context EXCEPT !.m_deviceMap[d].m_fenceMap[f] = "signaled",
                                      !.m_deviceMap[d].completed = @ \cup {f}]
    /\ UNCHANGED <<s_errorCallback, lastCall, issued, epoch, destroyed, boundInScope, lastTransition, requested, blocked, selection, renderGraph, vertexInput>>

(***************************************************************************)
(* Public header: use of device resources.                                 *)
(***************************************************************************)
Device_get_descriptor_set(dev, h) == h.res \in DOMAIN dev.m_descriptorSetMap

Device_get_buffer(dev, h) == h.res \in dev.m_bufferMap

Device_get_texture(dev, h) == h.res \in DOMAIN dev.m_textureMap

Device_get_swap_chain(dev, h) == h.res \in DOMAIN dev.m_swapChainMap

\* Device::get_queue: `queueIndex > size` lets the index equal to the size through
Device_get_queue(dev, queueIndex) ==
    IF queueIndex > dev.m_queues THEN "false"
    ELSE IF queueIndex = dev.m_queues THEN "out_of_range"
    ELSE "true"

\* Device::wait_on_fence: m_fenceMap.at() throws for a fence that is not in the table;
\* otherwise the thread enters waitForFences with the longest timeout
wait_on_fence(h) ==
    /\ Context_is_valid
    /\ IF ~Context_get_device(h.dev)
       THEN /\ lastCall' = Reported("wait_on_fence", "void",
                                    "gfx::wait_on_fence() - fenceHandle must be valid!")
            /\ UNCHANGED <<s_errorCallback, s_context, issued, epoch, destroyed, boundInScope, lastTransition, requested, blocked, selection, renderGraph, vertexInput>>
       ELSE IF h.res \notin DOMAIN DeviceOf(h.dev).m_fenceMap
       THEN /\ lastCall' = Threw("wait_on_fence", "out_of_range")
            /\ UNCHANGED <<s_errorCallback, s_context, issued, epoch, destroyed, boundInScope, lastTransition, requested, blocked, selection, renderGraph, vertexInput>>
       ELSE /\ blocked' = h
            /\ lastCall' = Returned("wait_on_fence", "blocked")
            /\ UNCHANGED <<s_errorCallback, s_context, issued, epoch, destroyed, boundInScope, lastTransition, requested, selection, renderGraph, vertexInput>>

\* waitForFences returns once the fence is signaled; the fence is then erased
wait_on_fence_returns ==
    /\ blocked # NoHandle
    /\ DeviceOf(blocked.dev).m_fenceMap[blocked.res] = "signaled"
    /\ s_context' = [s_context EXCEPT
                        !.m_deviceMap[blocked.dev].m_fenceMap = MapErase(@, blocked.res)]
    /\ lastCall' = Returned("wait_on_fence", "void")
    /\ blocked' = NoHandle
    /\ UNCHANGED <<s_errorCallback, issued, epoch, destroyed, boundInScope, lastTransition, requested, selection, renderGraph, vertexInput>>

\* what a read through a mapped pointer finds of the memory a submission wrote
HostViews == {"result", "stale"}

\* the application reads, through the pointer map_buffer gave it, the memory that the
\* submission of fence f writes.  The buffers are host visible (not necessarily
\* coherent), no command list records a barrier towards the host and nothing
\* invalidates the mapped range: whether the read finds what the GPU wrote is not
\* determined.
host_read(d, f, view) ==
    /\ Context_is_valid
    /\ Context_get_device(d)
    /\ lastCall' = Returned("host_read", IF f \in DeviceOf(d).completed THEN view ELSE "stale")
    /\ UNCHANGED <<s_errorCallback, s_context, issued, epoch, destroyed, boundInScope, lastTransition, requested, blocked, selection, renderGraph, vertexInput>>

\* the public destroy functions of device resources have empty bodies
DestroyOps ==
    {"destroy_command_list", "destroy_pipeline", "destroy_buffer", "destroy_texture",
     "destroy_swap_chain"}

destroy_resource(op, h) ==
    /\ Context_is_valid
    /\ Unchanged(op, "void")

Bindings == {0}

bind_buffer_to_descriptor_set(h, binding, b) ==
    /\ Context_is_valid
    /\ IF h.dev # b.dev
       THEN /\ lastCall' = Reported("bind_buffer_to_descriptor_set", "void",
                   "GFX - Buffer must belong to the same device as the descriptor set it is to be bound too!")
            /\ UNCHANGED <<s_errorCallback, s_context, issued, epoch, destroyed, boundInScope, lastTransition, requested, blocked, selection, renderGraph, vertexInput>>
       ELSE IF ~Context_get_device(h.dev)
       THEN Unchanged("bind_buffer_to_descriptor_set", "void")
       ELSE IF ~Device_get_descriptor_set(DeviceOf(h.dev), h)
       THEN /\ lastCall' = Reported("bind_buffer_to_descriptor_set", "void",
                                    "GFX - Cannot bind buffer to unknown descriptor set!")
            /\ UNCHANGED <<s_errorCallback, s_context, issued, epoch, destroyed, boundInScope, lastTransition, requested, blocked, selection, renderGraph, vertexInput>>
       ELSE IF ~Device_get_buffer(DeviceOf(h.dev), b)
       THEN /\ lastCall' = Reported("bind_buffer_to_descriptor_set", "void",
                                    "GFX - Cannot bind unknown buffer to descriptor set!")
            /\ UNCHANGED <<s_errorCallback, s_context, issued, epoch, destroyed, boundInScope, lastTransition, requested, blocked, selection, renderGraph, vertexInput>>
       ELSE /\ s_context' = [s_context EXCEPT
                                !.m_deviceMap[h.dev].m_descriptorSetMap[h.res] =
                                    MapPut(@, binding, b.res)]
            /\ lastCall' = Returned("bind_buffer_to_descriptor_set", "void")
            /\ UNCHANGED <<s_errorCallback, issued, epoch, destroyed, boundInScope, lastTransition, requested, blocked, selection, renderGraph, vertexInput>>

map_buffer(h) ==
    /\ Context_is_valid
    /\ IF ~Context_get_device(h.dev)
       THEN Unchanged("map_buffer", "false")
       ELSE IF ~Device_get_buffer(DeviceOf(h.dev), h)
       THEN Unchanged("map_buffer", "false")
       ELSE Unchanged("map_buffer", "true")

unmap_buffer(h) ==
    /\ Context_is_valid
    /\ Unchanged("unmap_buffer", "void")

\* SwapChain::present: present, then acquire_next_image_index
present_swap_chain(h, queueIndex, index) ==
    /\ Context_is_valid
    /\ IF ~Context_get_device(h.dev)
       THEN Unchanged("present_swap_chain", "void")
       ELSE IF Device_get_queue(DeviceOf(h.dev), queueIndex) = "false"
       THEN Unchanged("present_swap_chain", "void")
       ELSE IF Device_get_queue(DeviceOf(h.dev), queueIndex) = "out_of_range"
       THEN /\ lastCall' = Threw("present_swap_chain", "out_of_range")
            /\ UNCHANGED <<s_errorCallback, s_context, issued, epoch, destroyed, boundInScope, lastTransition, requested, blocked, selection, renderGraph, vertexInput>>
       ELSE IF ~Device_get_swap_chain(DeviceOf(h.dev), h)
       THEN Unchanged("present_swap_chain", "void")
       ELSE LET p == SwapChain_present(DeviceOf(h.dev).m_swapChainMap[h.res], index)
            IN
            /\ index < Len(DeviceOf(h.dev).m_swapChainMap[h.res].m_imageHandles)
            /\ s_context' = [s_context EXCEPT
                                !.m_deviceMap[h.dev].m_swapChainMap[h.res] = p.swapChain]
            /\ lastCall' = [Returned("present_swap_chain", "void") EXCEPT
                                !.cmd = [name |-> "present", calls |-> p.calls]]
            /\ UNCHANGED <<s_errorCallback, issued, epoch, destroyed, boundInScope, lastTransition, requested, blocked, selection, renderGraph, vertexInput>>

SwapChain_get_current_image_handle(sc) == sc.m_imageHandles[sc.m_imageIndex + 1]

get_swap_chain_image(h) ==
    /\ Context_is_valid
    /\ IF ~Context_get_device(h.dev)
       THEN Unchanged("get_swap_chain_image", "false")
       ELSE IF ~Device_get_swap_chain(DeviceOf(h.dev), h)
       THEN Unchanged("get_swap_chain_image", "false")
       ELSE /\ lastCall' =
                   LET sc == DeviceOf(h.dev).m_swapChainMap[h.res]
                   IN  IF sc.m_imageIndex < Len(sc.m_imageHandles)
                       THEN Created("get_swap_chain_image", SwapChain_get_current_image_handle(sc))
                       ELSE \* m_imageHandles.at(m_imageIndex) throws
                            Threw("get_swap_chain_image", "out_of_range")
            /\ UNCHANGED <<s_errorCallback, s_context, issued, epoch, destroyed, boundInScope, lastTransition, requested, blocked, selection, renderGraph, vertexInput>>

\* SwapChain::resize of the swap chain of the handle
resize(h, nImages) ==
    /\ Context_is_valid
    /\ Context_get_device(h.dev)
    /\ Device_get_swap_chain(DeviceOf(h.dev), h)
    /\ DeviceOf(h.dev).m_swapChainMap[h.res].m_swapChain < MaxChains
    /\ LET r == SwapChain_resize(DeviceOf(h.dev), DeviceOf(h.dev).m_swapChainMap[h.res], nImages)
       IN  s_context' = WithDevice(h.dev, [r.device EXCEPT !.m_swapChainMap[h.res] = r.swapChain])
    /\ lastCall' = Returned("resize", "void")
    /\ UNCHANGED <<s_errorCallback, issued, epoch, destroyed, boundInScope, lastTransition, requested, blocked, selection, renderGraph, vertexInput>>

(***************************************************************************)
(* CommandList methods.  Each yields the list after the call, the Vulkan   *)
(* call it issued to m_commandBuffer, the message it passed to the error   *)
(* callback and the way it left abnormally.                                *)
(***************************************************************************)
Ignored(cl) == [list |-> cl, cmd |-> NoCmd, err |-> "none", thrown |-> "none"]

Rejected(cl, msg) == [list |-> cl, cmd |-> NoCmd, err |-> msg, thrown |-> "none"]

Trapped(cl, how) == [list |-> cl, cmd |-> NoCmd, err |-> "none", thrown |-> how]

\* a vkCmd* call recorded into the command buffer
Push(cl, c) ==
    [list |-> [cl EXCEPT !.m_commandBuffer.size = @ + 1],
     cmd |-> c, err |-> "none", thrown |-> "none"]

\* CommandList::reset that leaves m_hasBegun as it is
CommandList_reset_KeepsBegun(cl) ==
    [list |-> [cl EXCEPT !.m_commandBuffer = [state |-> "initial", size |-> 0],
                         !.m_boundPipeline = 0],
     cmd |-> Cmd("reset"), err |-> "none", thrown |-> "none"]

\* CommandList::reset that leaves m_boundPipeline as it is
CommandList_reset_KeepsPipeline(cl) ==
    [list |-> [cl EXCEPT !.m_commandBuffer = [state |-> "initial", size |-> 0],
                         !.m_hasBegun = FALSE],
     cmd |-> Cmd("reset"), err |-> "none", thrown |-> "none"]

CommandList_reset(cl) ==
    [list |-> [cl EXCEPT !.m_commandBuffer = [state |-> "initial", size |-> 0],
                         !.m_hasBegun = FALSE,
                         !.m_boundPipeline = 0],
     cmd |-> Cmd("reset"), err |-> "none", thrown |-> "none"]

\* CommandList::begin without the m_hasBegun check
CommandList_begin_Unchecked(cl) ==
    [list |-> [cl EXCEPT !.m_commandBuffer.state = "recording",
                         !.m_hasBegun = TRUE],
     cmd |-> Cmd("begin"), err |-> "none", thrown |-> "none"]

CommandList_begin(cl) ==
    IF cl.m_hasBegun
    THEN Rejected(cl, "GFX - CommandList has already begun recording!")
    ELSE [list |-> [cl EXCEPT !.m_commandBuffer.state = "recording",
                              !.m_hasBegun = TRUE],
          cmd |-> Cmd("begin"), err |-> "none", thrown |-> "none"]

\* CommandList::end that also clears m_hasBegun
CommandList_end_ClearsBegun(cl) ==
    IF ~cl.m_hasBegun
    THEN Rejected(cl, "GFX - Cannot end() CommandList that has not even begun!")
    ELSE [list |-> [cl EXCEPT !.m_commandBuffer.state = "executable",
                              !.m_hasBegun = FALSE],
          cmd |-> Cmd("end"), err |-> "none", thrown |-> "none"]

CommandList_end(cl) ==
    IF ~cl.m_hasBegun
    THEN Rejected(cl, "GFX - Cannot end() CommandList that has not even begun!")
    ELSE [list |-> [cl EXCEPT !.m_commandBuffer.state = "executable"],
          cmd |-> Cmd("end"), err |-> "none", thrown |-> "none"]

CommandList_begin_render_pass(cl) ==
    IF ~cl.m_hasBegun THEN Ignored(cl) ELSE Push(cl, Cmd("beginRendering"))

CommandList_end_render_pass(cl) ==
    IF ~cl.m_hasBegun THEN Ignored(cl) ELSE Push(cl, Cmd("endRendering"))

CommandList_set_viewport(cl) ==
    IF ~cl.m_hasBegun THEN Ignored(cl) ELSE Push(cl, Cmd("setViewport"))

CommandList_set_scissor(cl) ==
    IF ~cl.m_hasBegun THEN Ignored(cl) ELSE Push(cl, Cmd("setScissor"))

\* pipeline is the id of a Pipeline of the list's device, 0 for nullptr
CommandList_bind_pipeline(cl, pipeline) ==
    IF pipeline = 0
    THEN Rejected(cl, "GFX - Command list cannot bind null pipeline!")
    ELSE LET r == Push(cl, Cmd("bindPipeline"))
         IN  [r EXCEPT !.list.m_boundPipeline = pipeline]

CommandList_bind_descriptor_set(cl) ==
    IF ~cl.m_hasBegun THEN Ignored(cl)
    ELSE IF cl.m_boundPipeline = 0
    THEN Rejected(cl, "GFX - Cannot bind descriptor set when no pipeline has been bound!")
    ELSE Push(cl, Cmd("bindDescriptorSets"))

\* with no pipeline bound m_boundPipeline->get_pipeline_layout() reads through nullptr:
\* the build either faults or pushes constants with whatever layout it read
NullPipelineReads == {"null_dereference", "garbage"}

CommandList_set_constants(cl, nullRead) ==
    IF ~cl.m_hasBegun THEN Ignored(cl)
    ELSE IF cl.m_boundPipeline = 0 /\ nullRead = "null_dereference"
    THEN Trapped(cl, "null_dereference")
    ELSE Push(cl, Cmd("pushConstants"))

CommandList_dispatch(cl) ==
    IF ~cl.m_hasBegun THEN Ignored(cl) ELSE Push(cl, Cmd("dispatch"))

CommandList_bind_index_buffer(cl) ==
    IF ~cl.m_hasBegun THEN Ignored(cl) ELSE Push(cl, Cmd("bindIndexBuffer"))

CommandList_bind_vertex_buffer(cl) ==
    IF ~cl.m_hasBegun THEN Ignored(cl) ELSE Push(cl, Cmd("bindVertexBuffers"))

CommandList_draw(cl) ==
    IF ~cl.m_hasBegun THEN Ignored(cl) ELSE Push(cl, Cmd("draw"))

CommandList_draw_indexed(cl) ==
    IF ~cl.m_hasBegun THEN Ignored(cl) ELSE Push(cl, Cmd("drawIndexed"))

TextureStates == {"eUndefined", "eUploadDst", "eShaderRead", "eRenderTarget", "ePresent"}

s_textureStateImageLayoutMap ==
    [eUndefined |-> "eUndefined", eShaderRead |-> "eShaderReadOnlyOptimal",
     eRenderTarget |-> "eAttachmentOptimal", ePresent |-> "ePresentSrcKHR"]

s_barrierTextureStatePipelineStageMaskMap ==
    [eUndefined |-> "eTopOfPipe", eShaderRead |-> "eFragmentShader",
     eRenderTarget |-> "eColorAttachmentOutput", ePresent |-> "eBottomOfPipe"]

s_barrierTextureStateAccessMaskMap ==
    [eUndefined |-> "eNone", eShaderRead |-> "eShaderRead",
     eRenderTarget |-> "eColorAttachmentWrite", ePresent |-> "eNone"]

BarrierTriple(state) ==
    [layout |-> s_textureStateImageLayoutMap[state],
     stage |-> s_barrierTextureStatePipelineStageMaskMap[state],
     access |-> s_barrierTextureStateAccessMaskMap[state]]

\* the barrier with source and destination exchanged
CommandList_transition_texture_Exchanged(cl, texture, oldState, newState) ==
    IF ~cl.m_hasBegun THEN Ignored(cl)
    ELSE IF \/ {oldState, newState} \ DOMAIN s_textureStateImageLayoutMap # {}
            \/ {oldState, newState} \ DOMAIN s_barrierTextureStatePipelineStageMaskMap # {}
            \/ {oldState, newState} \ DOMAIN s_barrierTextureStateAccessMaskMap # {}
    THEN Trapped(cl, "assert")
    ELSE Push(cl, [name |-> "pipelineBarrier2", image |-> texture.m_image,
                   src |-> BarrierTriple(newState), dst |-> BarrierTriple(oldState)])

CommandList_transition_texture(cl, texture, oldState, newState) ==
    IF ~cl.m_hasBegun THEN Ignored(cl)
    ELSE IF \/ {oldState, newState} \ DOMAIN s_textureStateImageLayoutMap # {}
            \/ {oldState, newState} \ DOMAIN s_barrierTextureStatePipelineStageMaskMap # {}
            \/ {oldState, newState} \ DOMAIN s_barrierTextureStateAccessMaskMap # {}
    THEN Trapped(cl, "assert")
    ELSE Push(cl, [name |-> "pipelineBarrier2", image |-> texture.m_image,
                   src |-> BarrierTriple(oldState), dst |-> BarrierTriple(newState)])

(***************************************************************************)
(* Public header: command list recording.                                  *)
(***************************************************************************)
ListOf(h) == DeviceOf(h.dev).m_commandListMap[h.res]

\* the public wrapper found the list and ran the CommandList method with result r
Ran(op, h, ret, r) ==
    /\ r.list.m_commandBuffer.size <= MaxCmds
    /\ s_context' = [s_context EXCEPT !.m_deviceMap[h.dev].m_commandListMap[h.res] = r.list]
    /\ lastCall' = IF r.thrown # "none" THEN Threw(op, r.thrown)
                    ELSE IF r.err # "none" THEN Reported(op, ret, r.err)
                    ELSE Call(op, ret, NoHandle, "none", r.cmd, "none")
    /\ boundInScope' = IF r.cmd \in {Cmd("reset"), Cmd("begin")} THEN boundInScope \ {h}
                        ELSE IF r.cmd = Cmd("bindPipeline") THEN boundInScope \cup {h}
                        ELSE boundInScope
    /\ lastTransition' = IF r.cmd.name = "pipelineBarrier2"
                          THEN LET k == <<h.dev, r.cmd.image>>
                               IN  MapPut(lastTransition, k,
                                          [dst |-> r.cmd.dst,
                                           continues |-> \/ k \notin DOMAIN lastTransition
                                                         \/ lastTransition[k].dst = r.cmd.src])
                          ELSE lastTransition
    /\ UNCHANGED <<s_errorCallback, issued, epoch, destroyed, requested, blocked, selection, renderGraph, vertexInput>>

\* device, then command list
OnList(op, h, ret, r) ==
    /\ Context_is_valid
    /\ IF ~Context_get_device(h.dev)
       THEN Unchanged(op, IF ret = "true" THEN "false" ELSE ret)
       ELSE IF ~Device_get_command_list(DeviceOf(h.dev), h)
       THEN Unchanged(op, IF ret = "true" THEN "false" ELSE ret)
       ELSE Ran(op, h, ret, r)

reset(h) == OnList("reset", h, "void", CommandList_reset(ListOf(h)))

\* returns true whenever the list was found
begin(h) == OnList("begin", h, "true", CommandList_begin(ListOf(h)))

end(h) == OnList("end", h, "void", CommandList_end(ListOf(h)))

\* one colour attachment t, no depth attachment; a failed lookup trips GFX_ASSERT
begin_render_pass(h, t) ==
    /\ Context_is_valid
    /\ IF ~Context_get_device(h.dev)
       THEN Unchanged("begin_render_pass", "void")
       ELSE IF ~Device_get_command_list(DeviceOf(h.dev), h)
       THEN Unchanged("begin_render_pass", "void")
       ELSE IF ~Device_get_texture(DeviceOf(h.dev), t)
       THEN /\ lastCall' = Threw("begin_render_pass", "assert")
            /\ UNCHANGED <<s_errorCallback, s_context, issued, epoch, destroyed, boundInScope, lastTransition, requested, blocked, selection, renderGraph, vertexInput>>
       ELSE Ran("begin_render_pass", h, "void", CommandList_begin_render_pass(ListOf(h)))

end_render_pass(h) ==
    OnList("end_render_pass", h, "void", CommandList_end_render_pass(ListOf(h)))

set_viewport(h) == OnList("set_viewport", h, "void", CommandList_set_viewport(ListOf(h)))

set_scissor(h) == OnList("set_scissor", h, "void", CommandList_set_scissor(ListOf(h)))

\* device, then pipeline (by its resource id in the list's device), then command list
bind_pipeline(h, p) ==
    /\ Context_is_valid
    /\ IF ~Context_get_device(h.dev)
       THEN Unchanged("bind_pipeline", "void")
       ELSE IF ~Device_get_pipeline(DeviceOf(h.dev), p)
       THEN Unchanged("bind_pipeline", "void")
       ELSE IF ~Device_get_command_list(DeviceOf(h.dev), h)
       THEN Unchanged("bind_pipeline", "void")
       ELSE Ran("bind_pipeline", h, "void", CommandList_bind_pipeline(ListOf(h), p.res))

\* device, then descriptor set, then command list
bind_descriptor_set(h, ds) ==
    /\ Context_is_valid
    /\ IF ~Context_get_device(h.dev)
       THEN Unchanged("bind_descriptor_set", "void")
       ELSE IF ~Device_get_descriptor_set(DeviceOf(h.dev), ds)
       THEN Unchanged("bind_descriptor_set", "void")
       ELSE IF ~Device_get_command_list(DeviceOf(h.dev), h)
       THEN Unchanged("bind_descriptor_set", "void")
       ELSE Ran("bind_descriptor_set", h, "void", CommandList_bind_descriptor_set(ListOf(h)))

set_constants(h, nullRead) ==
    OnList("set_constants", h, "void", CommandList_set_constants(ListOf(h), nullRead))

dispatch(h) == OnList("dispatch", h, "void", CommandList_dispatch(ListOf(h)))

\* device, then command list, then buffer
OnListAndBuffer(op, h, b, r) ==
    /\ Context_is_valid
    /\ IF ~Context_get_device(h.dev)
       THEN Unchanged(op, "void")
       ELSE IF ~Device_get_command_list(DeviceOf(h.dev), h)
       THEN Unchanged(op, "void")
       ELSE IF ~Device_get_buffer(DeviceOf(h.dev), b)
       THEN Unchanged(op, "void")
       ELSE Ran(op, h, "void", r)

bind_index_buffer(h, b) ==
    OnListAndBuffer("bind_index_buffer", h, b, CommandList_bind_index_buffer(ListOf(h)))

bind_vertex_buffer(h, b) ==
    OnListAndBuffer("bind_vertex_buffer", h, b, CommandList_bind_vertex_buffer(ListOf(h)))

draw(h) == OnList("draw", h, "void", CommandList_draw(ListOf(h)))

draw_indexed(h) == OnList("draw_indexed", h, "void", CommandList_draw_indexed(ListOf(h)))

\* device, then texture, then command list
transition_texture(h, t, oldState, newState) ==
    /\ Context_is_valid
    /\ IF ~Context_get_device(h.dev)
       THEN Unchanged("transition_texture", "void")
       ELSE IF ~Device_get_texture(DeviceOf(h.dev), t)
       THEN Unchanged("transition_texture", "void")
       ELSE IF ~Device_get_command_list(DeviceOf(h.dev), h)
       THEN Unchanged("transition_texture", "void")
       ELSE Ran("transition_texture", h, "void",
                CommandList_transition_texture(ListOf(h), DeviceOf(h.dev).m_textureMap[t.res],
                                               oldState, newState))

(***************************************************************************)
(* Queue selection in Device::Device.  A bitmask is the set of its bits.   *)
(***************************************************************************)
QueueFlags_Graphics == "QueueFlags_Graphics"
QueueFlags_Compute == "QueueFlags_Compute"
QueueFlags_Transfer == "QueueFlags_Transfer"

\* the bits of one entry of DeviceInfo::queueFlags
QueueFlagBits == {QueueFlags_Graphics, QueueFlags_Compute, QueueFlags_Transfer}

\* vk::QueueFlagBits a queue family can report
VkQueueFlagBits == {"eGraphics", "eCompute", "eTransfer", "eSparseBinding"}

\* the vk::QueueFlags built from one requested mask
WantedFlags(queueFlags) ==
    (IF QueueFlags_Graphics \in queueFlags THEN {"eGraphics"} ELSE {})
    \cup (IF QueueFlags_Compute \in queueFlags THEN {"eCompute"} ELSE {})
    \cup (IF QueueFlags_Transfer \in queueFlags THEN {"eTransfer"} ELSE {})

\* families are indexed from 0: family k is queueProperties[k + 1]
FamilyIndices(queueProperties) == 0 .. Len(queueProperties) - 1

\* the families the inner loop accepts for the wanted flags
Accepted(queueProperties, wantedFlags) ==
    { k \in FamilyIndices(queueProperties) : queueProperties[k + 1] \cap wantedFlags # {} }

Lowest(S) == CHOOSE k \in S : \A j \in S : k <= j

\* the outer loop: m_queueFamilies[i] is the first accepted family, and stays at the 0
\* that resize() gave it when the inner loop accepts none; usedQueueFamilyCounts counts
\* the requests given to each family
Device_select_queue_families(queueProperties, queueFlags) ==
    LET accepted(i) == Accepted(queueProperties, WantedFlags(queueFlags[i]))
        family(i) == IF accepted(i) = {} THEN 0 ELSE Lowest(accepted(i))
        used == { family(i) : i \in { j \in 1 .. Len(queueFlags) : accepted(j) # {} } }
    IN  [m_queueFlags |-> queueFlags,
         m_queueFamilies |-> [i \in 1 .. Len(queueFlags) |-> family(i)],
         usedQueueFamilyCounts |->
             [k \in used |-> Cardinality({ i \in 1 .. Len(queueFlags) :
                                             accepted(i) # {} /\ family(i) = k })]]

NoSelection == [queueProperties |-> <<>>, queueFlags |-> <<>>, done |-> FALSE,
                device |-> Device_select_queue_families(<<>>, <<>>)]

(***************************************************************************)
(* RenderGraph (gfx_render_graph.cpp).  A pass is known by the name it was *)
(* added under; m_executionOrder holds the passes by that name.            *)
(***************************************************************************)
\* the texture the passes of a graph read and write
GraphTextures == {Handle(1, 1)}

\* a RenderGraphPass; object tells the pass objects apart that were added under one
\* name, m_buildFunc and m_executeFunc are TRUE iff a callback was installed
NewRenderGraphPass(object) ==
    [object |-> object, m_reads |-> {}, m_writes |-> {},
     m_buildFunc |-> FALSE, m_executeFunc |-> FALSE]

\* history: the last call on the graph, its argument, its outcome, the callbacks it
\* invoked, in order, and the length the execution order had when it was made
GraphCall(g, op, arg, ret, calls) ==
    [op |-> op, arg |-> arg, ret |-> ret, calls |-> calls, over |-> Len(g.m_executionOrder)]

NewRenderGraph ==
    [m_passMap |-> EmptyMap, m_executionOrder |-> <<>>,
     last |-> [op |-> "none", arg |-> NoHandle, ret |-> "void", calls |-> <<>>, over |-> 0]]

\* RenderGraphPass* : the name the pass was added under and the object added
PassPointer(g, name) == [name |-> name, object |-> g.m_passMap[name].object]

\* the pointer refers to the pass the map owns now
IsLivePass(g, pass) ==
    /\ pass.name \in DOMAIN g.m_passMap
    /\ g.m_passMap[pass.name].object = pass.object

\* m_passMap[passName] = make_unique: a pass the map held under the name is destroyed
RenderGraph_add_graphics_pass(g, passName) ==
    LET object == IF passName \in DOMAIN g.m_passMap
                  THEN g.m_passMap[passName].object + 1 ELSE 0
    IN  [g EXCEPT !.m_passMap = MapPut(@, passName, NewRenderGraphPass(object)),
                  !.last = GraphCall(g, "add_graphics_pass", NoHandle, "void", <<>>)]

\* the orders in which a loop over the unordered_map can visit its entries
IterationOrders(g) ==
    { order \in [1 .. Cardinality(DOMAIN g.m_passMap) -> DOMAIN g.m_passMap] :
          \A i, j \in DOMAIN order : i # j => order[i] # order[j] }

BuildCall(pass) == [callback |-> "build", pass |-> pass, arg |-> NoHandle]

ExecuteCall(pass, commandListHandle) ==
    [callback |-> "execute", pass |-> pass, arg |-> commandListHandle]

\* the first position at which the sequence of booleans holds TRUE, or one past its end
FirstWhere(stops) ==
    IF \E i \in DOMAIN stops : stops[i]
    THEN CHOOSE i \in DOMAIN stops : stops[i] /\ \A j \in 1 .. i - 1 : ~stops[j]
    ELSE Len(stops) + 1

\* compile() that keeps the execution order of the compile() before it
RenderGraph_compile_NoClear(g, order) ==
    LET NoBuild(name) == ~g.m_passMap[name].m_buildFunc
        stop == FirstWhere([i \in DOMAIN order |-> NoBuild(order[i])])
        built == [i \in 1 .. stop - 1 |-> PassPointer(g, order[i])]
    IN  [g EXCEPT !.m_executionOrder = @ \o built,
                  !.last = GraphCall(g, "compile", NoHandle,
                                     IF stop <= Len(order) THEN "bad_function_call" ELSE "true",
                                     [i \in 1 .. stop - 1 |-> BuildCall(built[i])])]

\* compile(): clears the order, then visits the map; each pass is built and appended.
\* Calling an empty m_buildFunc throws std::bad_function_call out of the loop
RenderGraph_compile(g, order) ==
    LET NoBuild(name) == ~g.m_passMap[name].m_buildFunc
        stop == FirstWhere([i \in DOMAIN order |-> NoBuild(order[i])])
        built == [i \in 1 .. stop - 1 |-> PassPointer(g, order[i])]
    IN  [g EXCEPT !.m_executionOrder = built,
                  !.last = GraphCall(g, "compile", NoHandle,
                                     IF stop <= Len(order) THEN "bad_function_call" ELSE "true",
                                     [i \in 1 .. stop - 1 |-> BuildCall(built[i])])]

\* what the call through a pointer to a destroyed pass can do
DanglingOutcomes == {"crash", "call", "bad_function_call"}

\* execute() that walks the order from its end
RenderGraph_execute_Reversed(g, commandListHandle, dangling) ==
    LET n == Len(g.m_executionOrder)
    IN  [g EXCEPT !.last = GraphCall(g, "execute", commandListHandle, "void",
                                     [i \in 1 .. n |->
                                         ExecuteCall(g.m_executionOrder[n + 1 - i],
                                                     commandListHandle)])]

\* execute(): calls m_executeFunc of each pass of the order with the handle.  An empty
\* m_executeFunc throws; a pointer to a destroyed pass is used after free
RenderGraph_execute(g, commandListHandle, dangling) ==
    LET Stops(pass) ==
            IF IsLivePass(g, pass) THEN ~g.m_passMap[pass.name].m_executeFunc
            ELSE dangling # "call"
        stop == FirstWhere([i \in DOMAIN g.m_executionOrder |-> Stops(g.m_executionOrder[i])])
        ret == IF stop > Len(g.m_executionOrder) THEN "void"
               ELSE IF IsLivePass(g, g.m_executionOrder[stop]) THEN "bad_function_call"
               ELSE dangling
    IN  [g EXCEPT !.last = GraphCall(g, "execute", commandListHandle, ret,
                                     [i \in 1 .. stop - 1 |->
                                         ExecuteCall(g.m_executionOrder[i], commandListHandle)])]

(***************************************************************************)
(* Vertex input of GraphicsPipeline::GraphicsPipeline.                     *)
(***************************************************************************)
Formats ==
    {"eUndefined", "eRG8", "eRG32", "eRGB8", "eRGB32", "eRGBA8", "eRGBA32",
     "eDepth16", "eDepth24Stencil8", "eDepth32", "eDepth32Stencil8"}

\* the formats the two switch statements have a case for
ConvertedFormats == {"eUndefined", "eRGB8", "eRGB32", "eRGBA8", "eRGBA32"}

\* the default branch runs GFX_ASSERT(false, ...) and falls through to the last return
convert_format_to_vk_format(format) ==
    CASE format = "eUndefined" -> "vk::Format::eUndefined"
      [] format = "eRGB8"      -> "vk::Format::eR8G8B8Unorm"
      [] format = "eRGB32"     -> "vk::Format::eR32G32B32Sfloat"
      [] format = "eRGBA8"     -> "vk::Format::eR8G8B8A8Unorm"
      [] format = "eRGBA32"    -> "vk::Format::eR32G32B32A32Sfloat"
      [] OTHER                 -> "vk::Format::eUndefined"

convert_format_to_byte_size(format) ==
    CASE format = "eUndefined" -> 0
      [] format = "eRGB8"      -> 1 * 3
      [] format = "eRGBA8"     -> 1 * 4
      [] format = "eRGB32"     -> 4 * 3
      [] format = "eRGBA32"    -> 4 * 4
      [] OTHER                 -> 0

RECURSIVE StrideAfter(_, _)
\* stride after the loop has run over the first n attributes
StrideAfter(vertexAttributes, n) ==
    IF n = 0 THEN 0
    ELSE StrideAfter(vertexAttributes, n - 1)
         + convert_format_to_byte_size(vertexAttributes[n].format)

\* the loop over vertexAttributes: attribute i (counted from 0) is given setBinding(i),
\* its format and the stride so far as offset; location keeps the 0 it was constructed
\* with.  asserted: a GFX_ASSERT(false) of a conversion was run
GraphicsPipeline_vertex_input(vertexAttributes) ==
    [vk_attributes |->
         [i \in 1 .. Len(vertexAttributes) |->
             [location |-> 0,
              binding |-> i - 1,
              format |-> convert_format_to_vk_format(vertexAttributes[i].format),
              offset |-> StrideAfter(vertexAttributes, i - 1)]],
     vk_binding |-> [binding |-> 0, inputRate |-> "eVertex",
                     stride |-> StrideAfter(vertexAttributes, Len(vertexAttributes))],
     asserted |-> \E i \in DOMAIN vertexAttributes :
                      vertexAttributes[i].format \notin ConvertedFormats]

NoVertexInput ==
    [vertexAttributes |-> << >>, done |-> FALSE, state |-> GraphicsPipeline_vertex_input(<< >>)]

(***************************************************************************)
(* The process: no callback installed, no context.                         *)
(***************************************************************************)
Init ==
    /\ s_errorCallback = FALSE
    /\ s_context = NullContext
    /\ lastCall = NoCall
    /\ issued = EmptyBag
    /\ epoch = 0
    /\ destroyed = {}
    /\ boundInScope = {}
    /\ lastTransition = EmptyMap
    /\ blocked = NoHandle
    /\ selection = NoSelection
    /\ renderGraph = NewRenderGraph
    /\ vertexInput = NoVertexInput
    /\ requested = {}

QueueIndices == 0 .. MaxQueues + 1

Lifecycle ==
    \/ \E installed \in BOOLEAN : set_error_callback(installed)
    \/ \E instanceOk \in BOOLEAN, messengerOk \in BOOLEAN : initialise(instanceOk, messengerOk)
    \/ shutdown
    \/ \E outcome \in DeviceOutcomes, nQueues \in 1 .. MaxQueues : create_device(outcome, nQueues)
    \/ \E d \in DeviceIds : destroy_device(d)

Creation ==
    \/ \E d \in DeviceIds, queueIndex \in QueueIndices : create_command_list(d, queueIndex)
    \/ \E d \in DeviceIds, infos \in SetInfoLists : create_compute_pipeline(d, infos)
    \/ \E d \in DeviceIds, infos \in SetInfoLists : create_graphics_pipeline(d, infos)
    \/ \E h \in Handles, set \in 0 .. MaxSets : create_descriptor_set_from_pipeline(h, set)
    \/ \E d \in DeviceIds : create_buffer(d)
    \/ \E d \in DeviceIds : create_texture(d)
    \/ \E d \in DeviceIds, n \in 1 .. MaxImages, index \in 0 .. MaxImages - 1 :
           index < n /\ create_swap_chain(d, n, index)
    \/ \E h \in Handles, wantFence \in BOOLEAN, wantSemaphore \in BOOLEAN :
           submit_command_list(h, wantFence, wantSemaphore)

Use ==
    \/ \E h \in Handles : wait_on_fence(h)
    \/ \E op \in DestroyOps, h \in Handles : destroy_resource(op, h)
    \/ \E h \in Handles, binding \in Bindings, b \in Handles :
           bind_buffer_to_descriptor_set(h, binding, b)
    \/ \E h \in Handles : map_buffer(h)
    \/ \E h \in Handles : unmap_buffer(h)
    \/ \E h \in Handles, queueIndex \in QueueIndices, index \in 0 .. MaxImages - 1 :
           present_swap_chain(h, queueIndex, index)
    \/ \E h \in Handles : get_swap_chain_image(h)

Recording ==
    \/ \E h \in Handles : reset(h)
    \/ \E h \in Handles : begin(h)
    \/ \E h \in Handles : end(h)
    \/ \E h \in Handles, t \in Handles : begin_render_pass(h, t)
    \/ \E h \in Handles : end_render_pass(h)
    \/ \E h \in Handles : set_viewport(h)
    \/ \E h \in Handles : set_scissor(h)
    \/ \E h \in Handles, p \in Handles : bind_pipeline(h, p)
    \/ \E h \in Handles, ds \in Handles : bind_descriptor_set(h, ds)
    \/ \E h \in Handles, nullRead \in NullPipelineReads : set_constants(h, nullRead)
    \/ \E h \in Handles : dispatch(h)
    \/ \E h \in Handles, b \in Handles : bind_index_buffer(h, b)
    \/ \E h \in Handles, b \in Handles : bind_vertex_buffer(h, b)
    \/ \E h \in Handles : draw(h)
    \/ \E h \in Handles : draw_indexed(h)
    \/ \E h \in Handles, t \in Handles, oldState \in TextureStates, newState \in TextureStates :
           transition_texture(h, t, oldState, newState)

\* the calling thread is not inside wait_on_fence
HostIdle == blocked = NoHandle

\* the GPU, and the application's reads of mapped memory
Gpu == \E d \in DeviceIds, f \in ResourceIds : gpu_completes(d, f)

Reads == \E d \in DeviceIds, f \in ResourceIds, view \in HostViews : host_read(d, f, view)

Next ==
    \/ HostIdle /\ (Lifecycle \/ Creation \/ Use \/ Recording \/ Reads)
    \/ wait_on_fence_returns
    \/ Gpu

Spec == Init /\ [][Next]_vars

(***************************************************************************)
(* Handle issue: the lifecycle of the context and its devices and every    *)
(* creation call, with no error callback installed.                        *)
(***************************************************************************)
\* one descriptor set of one storage buffer
OneSet == << << [type |-> eStorageBuffer, count |-> 1, shaderStages |-> 1] >> >>

NextHandles ==
    \/ \E instanceOk \in BOOLEAN, messengerOk \in BOOLEAN : initialise(instanceOk, messengerOk)
    \/ shutdown
    \/ \E outcome \in DeviceOutcomes : create_device(outcome, 1)
    \/ \E d \in DeviceIds : destroy_device(d)
    \/ \E d \in DeviceIds : create_command_list(d, 0)
    \/ \E d \in DeviceIds : create_compute_pipeline(d, OneSet)
    \/ \E d \in DeviceIds : create_graphics_pipeline(d, OneSet)
    \/ \E h \in Handles : create_descriptor_set_from_pipeline(h, 0)
    \/ \E d \in DeviceIds : create_buffer(d)
    \/ \E d \in DeviceIds : create_texture(d)
    \/ \E d \in DeviceIds : create_swap_chain(d, 1, 0)
    \/ \E h \in Handles, wantFence \in BOOLEAN, wantSemaphore \in BOOLEAN :
           submit_command_list(h, wantFence, wantSemaphore)

SpecHandles == Init /\ [][NextHandles]_vars

ResourceTypes ==
    {"command_list", "pipeline", "descriptor_set", "buffer", "texture", "swap_chain", "fence"}

\* the handles of one type that the creation calls on the live device d returned
IssuedOn(d, type) ==
    { e \in BagToSet(issued) : e.epoch = epoch /\ e.on = d /\ e.type = type }

\* C1: for every live device d and every resource type, the handles returned by the
\* successful creation calls of that type on d are pairwise distinct (no handle was
\* returned twice) and each carries d as its device component.
C1_HandlesDistinctAndCarryDevice ==
    \A d \in DeviceIds, type \in ResourceTypes :
        (Context_is_valid /\ Context_get_device(d)) =>
            \A e \in IssuedOn(d, type) : CopiesIn(e, issued) = 1 /\ e.handle.dev = d

\* a live device on which two creation calls of one type have succeeded
C1_Witness ==
    \E d \in DeviceIds, type \in ResourceTypes :
        /\ Context_is_valid /\ Context_get_device(d)
        /\ Cardinality(IssuedOn(d, type)) >= 2

\* C2: no handle value is issued twice within the process: whatever create_*,
\* destroy_device, create_device, shutdown and initialise calls were made, no two
\* successful creation calls of one type (create_device included) returned the same
\* (device id, resource id) value.
C2_NeverIssuedTwice ==
    \A e1 \in BagToSet(issued), e2 \in BagToSet(issued) :
        (e1.type = e2.type /\ e1.handle = e2.handle) =>
            (e1 = e2 /\ CopiesIn(e1, issued) = 1)

(***************************************************************************)
(* Handles that outlive their device: the lifecycle of the context and its *)
(* devices, and a caller that passes handles of devices it has destroyed   *)
(* to every public function that takes a handle.                           *)
(***************************************************************************)
\* a public call given h as its device handle or as each of its resource handles
OnHandle(h) ==
    \/ destroy_device(h.dev)
    \/ create_command_list(h.dev, 0)
    \/ create_compute_pipeline(h.dev, OneSet)
    \/ create_graphics_pipeline(h.dev, OneSet)
    \/ create_descriptor_set_from_pipeline(h, 0)
    \/ create_buffer(h.dev)
    \/ create_texture(h.dev)
    \/ create_swap_chain(h.dev, 1, 0)
    \/ \E wantFence \in BOOLEAN, wantSemaphore \in BOOLEAN :
           submit_command_list(h, wantFence, wantSemaphore)
    \/ wait_on_fence(h)
    \/ \E op \in DestroyOps : destroy_resource(op, h)
    \/ bind_buffer_to_descriptor_set(h, 0, h)
    \/ map_buffer(h)
    \/ unmap_buffer(h)
    \/ present_swap_chain(h, 0, 0)
    \/ get_swap_chain_image(h)
    \/ reset(h)
    \/ begin(h)
    \/ end(h)
    \/ begin_render_pass(h, h)
    \/ end_render_pass(h)
    \/ set_viewport(h)
    \/ set_scissor(h)
    \/ bind_pipeline(h, h)
    \/ bind_descriptor_set(h, h)
    \/ \E nullRead \in NullPipelineReads : set_constants(h, nullRead)
    \/ dispatch(h)
    \/ bind_index_buffer(h, h)
    \/ bind_vertex_buffer(h, h)
    \/ draw(h)
    \/ draw_indexed(h)
    \/ transition_texture(h, h, "eUndefined", "eShaderRead")

\* the first resource of each type on each device
FirstHandles == { Handle(d, 1) : d \in DeviceIds }

NextStale ==
    /\ HostIdle
    /\ \/ set_error_callback(TRUE)
       \/ initialise(TRUE, TRUE)
       \/ shutdown
       \/ create_device("ok", 1)
       \/ \E d \in DeviceIds : destroy_device(d)
       \/ \E d \in DeviceIds : create_command_list(d, 0)
       \/ \E d \in DeviceIds : create_buffer(d)
       \/ \E h \in FirstHandles : h.dev \in destroyed /\ OnHandle(h)

SpecStale == Init /\ [][NextStale]_vars

\* C3: after destroy_device(d), every later public call given a handle whose device
\* component is d finds no device: it does not return true, hands out no handle,
\* records no command and leaves the context and all its devices as they were.
C3_DestroyedDeviceHandlesInert ==
    [][\A h \in FirstHandles :
          (h.dev \in destroyed /\ OnHandle(h)) =>
              /\ s_context' = s_context
              /\ lastCall'.ret # "true"
              /\ lastCall'.out = NoHandle
              /\ lastCall'.cmd = NoCmd]_vars

(***************************************************************************)
(* Recording: one device with one command list, pipeline, descriptor set,  *)
(* buffer and texture; the list has been recorded into once and ended.     *)
(***************************************************************************)
TheList == Handle(1, 1)

\* the first resource of the other types of device 1
TheResource == Handle(1, 1)

\* a list after begin(), dispatch() and end()
UsedList ==
    LET begun  == CommandList_begin(NewCommandList).list
        filled == CommandList_dispatch(begun).list
    IN  CommandList_end(filled).list

RecordDevice ==
    LET d0 == NewDevice(1, 1)
        d1 == Device_create_command_list(d0).device
        d2 == Device_create_pipeline(d1, "eCompute", OneSet).device
        d3 == Device_create_descriptor_set_from_pipeline(d2).device
        d4 == Device_create_buffer(d3).device
        d5 == Device_create_texture(d4).device
    IN  [d5 EXCEPT !.m_commandListMap[1] = UsedList]

\* the state after initialise(), create_device(), one creation call of each of these
\* types, and begin(), dispatch(), end() on the list
InitRecord ==
    /\ s_errorCallback = FALSE
    /\ s_context = [NewContext(TRUE) EXCEPT !.m_nextDeviceId = 2,
                                            !.m_deviceMap = MapPut(EmptyMap, 1, RecordDevice)]
    /\ lastCall = Call("end", "void", NoHandle, "none", Cmd("end"), "none")
    /\ issued = SetToBag({ [epoch |-> 1, type |-> "device", on |-> 0, handle |-> Handle(1, 0)] }
                         \cup { [epoch |-> 1, type |-> t, on |-> 1, handle |-> Handle(1, 1)] :
                                t \in {"command_list", "pipeline", "descriptor_set", "buffer",
                                       "texture"} })
    /\ epoch = 1
    /\ destroyed = {}
    /\ boundInScope = {}
    /\ lastTransition = EmptyMap
    /\ blocked = NoHandle
    /\ selection = NoSelection
    /\ renderGraph = NewRenderGraph
    /\ vertexInput = NoVertexInput
    /\ requested = Requests(1, Device_create_pipeline(NewDevice(1, 1), "eCompute", OneSet))

\* reset(), begin() and end() of the list
Bracket(h) == reset(h) \/ begin(h) \/ end(h)

\* the recording functions of the list
Record(h) ==
    \/ begin_render_pass(h, TheResource)
    \/ end_render_pass(h)
    \/ set_viewport(h)
    \/ set_scissor(h)
    \/ bind_pipeline(h, TheResource)
    \/ bind_descriptor_set(h, TheResource)
    \/ \E nullRead \in NullPipelineReads : set_constants(h, nullRead)
    \/ dispatch(h)
    \/ bind_index_buffer(h, TheResource)
    \/ bind_vertex_buffer(h, TheResource)
    \/ draw(h)
    \/ draw_indexed(h)
    \/ \E oldState \in TextureStates, newState \in TextureStates :
           transition_texture(h, TheResource, oldState, newState)

NextRecord ==
    \/ \E installed \in BOOLEAN : set_error_callback(installed)
    \/ Bracket(TheList)
    \/ Record(TheList)

SpecRecord == InitRecord /\ [][NextRecord]_vars

\* begun, and neither ended nor reset since
IsRecording(cl) == cl.m_commandBuffer.state = "recording"

\* ended, and neither reset nor begun since
IsEnded(cl) == cl.m_commandBuffer.state = "executable"

\* C4: begin() on a command list that is already Recording changes no state (the list
\* stays Recording with the same bound pipeline and the same recorded commands,
\* nothing is issued to the command buffer) and, with a callback installed, is
\* reported through the error callback.
C4_BeginWhileRecordingReported ==
    [][(IsRecording(ListOf(TheList)) /\ begin(TheList)) =>
           /\ s_context' = s_context
           /\ lastCall'.cmd = NoCmd
           /\ s_errorCallback =>
                  lastCall'.err = "GFX - CommandList has already begun recording!"]_vars

\* a begin() was reported on a Recording list that has a bound pipeline and a command
C4_Witness ==
    /\ lastCall.op = "begin"
    /\ lastCall.err = "GFX - CommandList has already begun recording!"
    /\ IsRecording(ListOf(TheList))
    /\ ListOf(TheList).m_boundPipeline # 0
    /\ ListOf(TheList).m_commandBuffer.size > 0

\* C5: after end() and before the next begin(), every recording function is ignored:
\* it issues nothing to the command buffer and leaves the list as it was.
C5_EndedListIgnoresRecording ==
    [][(IsEnded(ListOf(TheList)) /\ Record(TheList)) =>
           /\ s_context' = s_context
           /\ lastCall'.cmd = NoCmd]_vars

\* C6: end() on a list that is not Recording, a second end() directly after a first
\* one included, changes no state, issues nothing to the command buffer and, with a
\* callback installed, is reported through the error callback.
C6_EndWhileIdleReported ==
    [][(~IsRecording(ListOf(TheList)) /\ end(TheList)) =>
           /\ s_context' = s_context
           /\ lastCall'.cmd = NoCmd
           /\ s_errorCallback =>
                  lastCall'.err = "GFX - Cannot end() CommandList that has not even begun!"]_vars

\* C7: whatever state the calls so far left the list in, a begin() that directly
\* follows a reset() puts the list in Recording and reports no error.
C7_ResetThenBeginRecords ==
    [][(lastCall.op = "reset" /\ begin(TheList)) =>
           /\ IsRecording(ListOf(TheList))'
           /\ ListOf(TheList).m_hasBegun'
           /\ lastCall' = Call("begin", "true", NoHandle, "none", Cmd("begin"), "none")]_vars

\* a begin() succeeded: the list, ended at the start, was reset before
C7_Witness ==
    /\ lastCall = Call("begin", "true", NoHandle, "none", Cmd("begin"), "none")
    /\ IsRecording(ListOf(TheList))

C9_ResetIdempotent ==
    [][reset(TheList) =>
           /\ ListOf(TheList)' = NewCommandList
           /\ lastCall.op = "reset" => s_context' = s_context]_vars

\* a reset() has run: the list is Idle with no bound pipeline
C9_Witness ==
    /\ lastCall.op = "reset"
    /\ ~ListOf(TheList).m_hasBegun
    /\ ListOf(TheList).m_boundPipeline = 0

\* C10: while m_hasBegun is false every recording function leaves the list unchanged
\* (nothing issued to the command buffer, same bound pipeline) and reports no error.
C10_IdleListIgnoresRecording ==
    [][(~ListOf(TheList).m_hasBegun /\ Record(TheList)) =>
           /\ s_context' = s_context
           /\ lastCall'.cmd = NoCmd
           /\ lastCall'.err = "none"
           /\ lastCall'.thrown = "none"]_vars

\* C11: bind_descriptor_set on a Recording list is accepted (the descriptor set is
\* bound in the command buffer) only when bind_pipeline bound a pipeline since the
\* most recent begin(); otherwise it records nothing, leaves the list as it was and,
\* with a callback installed, is rejected through the error callback.
C11_DescriptorSetNeedsPipelineInScope ==
    [][(IsRecording(ListOf(TheList)) /\ bind_descriptor_set(TheList, TheResource)) =>
           IF TheList \in boundInScope
           THEN lastCall'.cmd = Cmd("bindDescriptorSets")
           ELSE /\ s_context' = s_context
                /\ lastCall'.cmd = NoCmd
                /\ s_errorCallback =>
                       lastCall'.err =
                           "GFX - Cannot bind descriptor set when no pipeline has been bound!"]_vars

\* C12: set_constants on a Recording list with no pipeline bound is a no-op that does
\* not use the absent pipeline: it records nothing, leaves the list as it was, does
\* not fault and, with a callback installed, is rejected through the error callback.
C12_ConstantsNeedPipeline ==
    [][\A nullRead \in NullPipelineReads :
          (/\ IsRecording(ListOf(TheList))
           /\ ListOf(TheList).m_boundPipeline = 0
           /\ set_constants(TheList, nullRead)) =>
              /\ s_context' = s_context
              /\ lastCall'.cmd = NoCmd
              /\ lastCall'.thrown \in {"none", "bad_function_call"}
              /\ s_errorCallback => lastCall'.err # "none"]_vars

(***************************************************************************)
(* Handles of another device: two devices, each with one command list,     *)
(* pipeline, descriptor set, buffer and texture; the list of device 1 is   *)
(* given second handles of device 1 and of device 2.                       *)
(***************************************************************************)
\* device d after one creation call of each of these types
DeviceWithResources(d) ==
    LET d0 == NewDevice(d, 1)
        d1 == Device_create_command_list(d0).device
        d2 == Device_create_pipeline(d1, "eCompute", OneSet).device
        d3 == Device_create_descriptor_set_from_pipeline(d2).device
        d4 == Device_create_buffer(d3).device
    IN  Device_create_texture(d4).device

\* the state after initialise(), two create_device() and these creation calls
InitForeign ==
    /\ s_errorCallback = FALSE
    /\ s_context = [NewContext(TRUE) EXCEPT
                       !.m_nextDeviceId = 3,
                       !.m_deviceMap = MapPut(MapPut(EmptyMap, 1, DeviceWithResources(1)),
                                              2, DeviceWithResources(2))]
    /\ lastCall = Created("create_texture", Handle(2, 1))
    /\ issued = SetToBag({ [epoch |-> 1, type |-> "device", on |-> 0, handle |-> Handle(d, 0)] :
                           d \in {1, 2} }
                         \cup { [epoch |-> 1, type |-> t, on |-> d, handle |-> Handle(d, 1)] :
                                t \in {"command_list", "pipeline", "descriptor_set", "buffer",
                                       "texture"}, d \in {1, 2} })
    /\ epoch = 1
    /\ destroyed = {}
    /\ boundInScope = {}
    /\ lastTransition = EmptyMap
    /\ blocked = NoHandle
    /\ selection = NoSelection
    /\ renderGraph = NewRenderGraph
    /\ vertexInput = NoVertexInput
    /\ requested = UNION { Requests(d, Device_create_pipeline(NewDevice(d, 1), "eCompute", OneSet)) :
                            d \in {1, 2} }

\* the first resource of device 1 and the first resource of device 2
SecondHandles == {Handle(1, 1), Handle(2, 1)}

\* the recording functions that take a second handle x
WithSecond(h, x) ==
    \/ begin_render_pass(h, x)
    \/ bind_pipeline(h, x)
    \/ bind_descriptor_set(h, x)
    \/ bind_index_buffer(h, x)
    \/ bind_vertex_buffer(h, x)
    \/ transition_texture(h, x, "eUndefined", "eShaderRead")

NextForeign ==
    \/ \E installed \in BOOLEAN : set_error_callback(installed)
    \/ Bracket(TheList)
    \/ \E x \in SecondHandles : WithSecond(TheList, x)

SpecForeign == InitForeign /\ [][NextForeign]_vars

\* C13: a recording function given the list of device 1 and a pipeline, descriptor
\* set, buffer or texture handle whose device component is another device treats the
\* second handle as not found: it records nothing and changes nothing, also when
\* device 1 has a resource of the same id.
C13_ForeignHandleNotFound ==
    [][\A x \in SecondHandles :
          (x.dev # TheList.dev /\ WithSecond(TheList, x)) =>
              /\ s_context' = s_context
              /\ lastCall'.cmd = NoCmd]_vars

\* C14: for every ordered pair (A, B) of the five TextureStates, transition_texture(A, B)
\* on a Recording list records exactly one barrier: one pipelineBarrier2 command is
\* issued and the command buffer grows by one command.
C14_EveryStatePairRecordsBarrier ==
    [][\A oldState \in TextureStates, newState \in TextureStates :
          (/\ IsRecording(ListOf(TheList))
           /\ transition_texture(TheList, TheResource, oldState, newState)) =>
              /\ lastCall'.cmd.name = "pipelineBarrier2"
              /\ ListOf(TheList)'.m_commandBuffer.size =
                     ListOf(TheList).m_commandBuffer.size + 1]_vars

\* the states that have an entry in each of the three tables
TableStates ==
    (DOMAIN s_textureStateImageLayoutMap)
        \cap (DOMAIN s_barrierTextureStatePipelineStageMaskMap)
        \cap (DOMAIN s_barrierTextureStateAccessMaskMap)

\* C15: transition_texture(texture, old, new) on a Recording list is a pure mapping: for
\* states old and new that have table entries, whatever barriers were recorded for the
\* texture before, the call records the barrier of the texture's image whose source is
\* the (layout, stage, access) entries of old and whose destination is the entries of
\* new, and the textures of the device, their m_layout included, stay as they were.
C15_TransitionIsPureMapping ==
    [][\A oldState \in TableStates, newState \in TableStates :
          (/\ IsRecording(ListOf(TheList))
           /\ transition_texture(TheList, TheResource, oldState, newState)) =>
              /\ lastCall'.cmd =
                     [name |-> "pipelineBarrier2",
                      image |-> DeviceOf(TheList.dev).m_textureMap[TheResource.res].m_image,
                      src |-> [layout |-> s_textureStateImageLayoutMap[oldState],
                               stage |-> s_barrierTextureStatePipelineStageMaskMap[oldState],
                               access |-> s_barrierTextureStateAccessMaskMap[oldState]],
                      dst |-> [layout |-> s_textureStateImageLayoutMap[newState],
                               stage |-> s_barrierTextureStatePipelineStageMaskMap[newState],
                               access |-> s_barrierTextureStateAccessMaskMap[newState]]]
              /\ DeviceOf(TheList.dev)'.m_textureMap = DeviceOf(TheList.dev).m_textureMap]_vars

\* a Recording list recorded a barrier for a texture whose previous barrier ended in
\* another state than the one this barrier starts from
C15_Witness ==
    /\ IsRecording(ListOf(TheList))
    /\ lastCall.op = "transition_texture"
    /\ lastCall.cmd.name = "pipelineBarrier2"
    /\ lastCall.cmd.src # lastCall.cmd.dst
    /\ <<TheList.dev, lastCall.cmd.image>> \in DOMAIN lastTransition
    /\ ~lastTransition[<<TheList.dev, lastCall.cmd.image>>].continues

(***************************************************************************)
(* One device whose descriptor-set layout cache is empty, and pipelines    *)
(* created on it with one descriptor set each.                             *)
(***************************************************************************)
TheDevice == 1

\* the state after initialise() and create_device()
InitLayouts ==
    /\ s_errorCallback = FALSE
    /\ s_context = [NewContext(TRUE) EXCEPT
                       !.m_nextDeviceId = 2,
                       !.m_deviceMap = MapPut(EmptyMap, TheDevice, NewDevice(TheDevice, 1))]
    /\ lastCall = Created("create_device", Handle(TheDevice, 0))
    /\ issued = SetToBag({ [epoch |-> 1, type |-> "device", on |-> 0,
                            handle |-> Handle(TheDevice, 0)] })
    /\ epoch = 1
    /\ destroyed = {}
    /\ boundInScope = {}
    /\ lastTransition = EmptyMap
    /\ blocked = NoHandle
    /\ selection = NoSelection
    /\ renderGraph = NewRenderGraph
    /\ vertexInput = NoVertexInput
    /\ requested = {}

NextLayouts ==
    \/ \E info \in SetInfos : create_compute_pipeline(TheDevice, <<info>>)
    \/ \E info \in SetInfos : create_graphics_pipeline(TheDevice, <<info>>)

SpecLayouts == InitLayouts /\ [][NextLayouts]_vars

\* the layout cache of a live device
LayoutCache(d) == DeviceOf(d).m_descriptorSetLayoutMap

\* C16: the requests of one device with structurally identical DescriptorSetInfo values
\* were all handed the same layout object, and the cache of the device holds one entry
\* for each distinct key (hash of an info) ever requested, each with an object of its own.
C16_SameInfoSameLayout ==
    /\ \A q1 \in requested, q2 \in requested :
          (q1.dev = q2.dev /\ q1.info = q2.info) => q1.layout = q2.layout
    /\ \A d \in DOMAIN s_context.m_deviceMap :
          /\ DOMAIN LayoutCache(d) =
                 { hash_DescriptorSetInfo(q.info) : q \in {x \in requested : x.dev = d} }
          /\ \A h1 \in DOMAIN LayoutCache(d), h2 \in DOMAIN LayoutCache(d) :
                 h1 # h2 => LayoutCache(d)[h1].object # LayoutCache(d)[h2].object

\* two pipelines were created with the same DescriptorSetInfo: one request is on record,
\* both pipelines hold its layout and the cache has one entry
C16_Witness ==
    /\ Cardinality(requested) = 1
    /\ DOMAIN DeviceOf(TheDevice).m_pipelineMap = {1, 2}
    /\ \A q \in requested :
          /\ q.layout.bindings = q.info
          /\ \A p \in {1, 2} : DeviceOf(TheDevice).m_pipelineMap[p].m_setLayouts = <<q.layout>>
    /\ Cardinality(DOMAIN LayoutCache(TheDevice)) = 1

\* the values std::hash<DescriptorSetInfo> combines: the number of bindings, then the
\* type and the count of each binding
RECURSIVE Combined(_)
Combined(info) ==
    IF info = << >> THEN << >>
    ELSE <<Head(info).type, Head(info).count>> \o Combined(Tail(info))

\* the combined hash of two infos does not collide: it is equal only when the combined
\* values are
NoCollision(info1, info2) ==
    (hash_DescriptorSetInfo(info1) = hash_DescriptorSetInfo(info2)) =>
        (Len(info1) = Len(info2) /\ Combined(info1) = Combined(info2))

\* C17: two requests of one device whose DescriptorSetInfo values differ in the number or
\* order of bindings or in a binding's type, count or shader-stage mask were handed
\* different layout objects, unless the combined hash of the two collides.
C17_DifferentInfoDifferentLayout ==
    \A q1 \in requested, q2 \in requested :
        (q1.dev = q2.dev /\ q1.info # q2.info /\ NoCollision(q1.info, q2.info)) =>
            q1.layout # q2.layout

(***************************************************************************)
(* Submission: one device with one command list that has been recorded and *)
(* ended; the host records and submits it, waits on fences and reads       *)
(* memory back, and the GPU completes the submissions.                     *)
(***************************************************************************)
FenceDevice ==
    LET d0 == NewDevice(TheDevice, 1)
        d1 == Device_create_command_list(d0).device
    IN  [d1 EXCEPT !.m_commandListMap[1] = UsedList]

\* the state after initialise(), create_device(), create_command_list() and begin(),
\* dispatch(), end() on the list
InitFence ==
    /\ s_errorCallback = FALSE
    /\ s_context = [NewContext(TRUE) EXCEPT
                       !.m_nextDeviceId = 2,
                       !.m_deviceMap = MapPut(EmptyMap, TheDevice, FenceDevice)]
    /\ lastCall = Call("end", "void", NoHandle, "none", Cmd("end"), "none")
    /\ issued = SetToBag({ [epoch |-> 1, type |-> "device", on |-> 0,
                            handle |-> Handle(TheDevice, 0)],
                           [epoch |-> 1, type |-> "command_list", on |-> TheDevice,
                            handle |-> TheList] })
    /\ epoch = 1
    /\ destroyed = {}
    /\ boundInScope = {}
    /\ lastTransition = EmptyMap
    /\ blocked = NoHandle
    /\ selection = NoSelection
    /\ renderGraph = NewRenderGraph
    /\ vertexInput = NoVertexInput
    /\ requested = {}

\* fence handles of the device: issued ones and never issued ones
FenceHandles == { Handle(TheDevice, f) : f \in ResourceIds }

NextFence ==
    \/ /\ HostIdle
       /\ \/ \E installed \in BOOLEAN : set_error_callback(installed)
          \/ \E wantFence \in BOOLEAN, wantSemaphore \in BOOLEAN :
                 submit_command_list(TheList, wantFence, wantSemaphore)
          \/ \E h \in FenceHandles : wait_on_fence(h)
          \/ \E f \in ResourceIds, view \in HostViews : host_read(TheDevice, f, view)
          \/ Bracket(TheList)
          \/ dispatch(TheList)
    \/ wait_on_fence_returns
    \/ \E f \in ResourceIds : gpu_completes(TheDevice, f)

SpecFence == InitFence /\ [][NextFence]_vars

\* the GPU completes every submission, and a thread whose wait is over runs on
SpecFenceLive ==
    /\ SpecFence
    /\ \A f \in ResourceIds : WF_vars(gpu_completes(TheDevice, f))
    /\ WF_vars(wait_on_fence_returns)

\* fence f of the device was created and wait_on_fence took it out of the table
Waited(f) ==
    /\ f < DeviceOf(TheDevice).m_nextFenceId
    /\ f \notin DOMAIN DeviceOf(TheDevice).m_fenceMap

\* C18: wait_on_fence(f) returns only after the GPU has completed the submission that
\* created f, and when it returns f is no longer in the fence table of the device; if the
\* GPU completes every submission, a thread that waits on f eventually returns; and a
\* host read that follows the return finds what the submitted commands wrote.
C18_WaitOnFenceContract ==
    /\ [][\A h \in FenceHandles :
              (blocked = h /\ wait_on_fence_returns) =>
                  /\ h.res \in DeviceOf(h.dev).completed
                  /\ h.res \notin DOMAIN DeviceOf(h.dev)'.m_fenceMap]_vars
    /\ \A h \in FenceHandles :
          (blocked = h) ~> (blocked = NoHandle /\ Waited(h.res))
    /\ [][\A f \in ResourceIds, view \in HostViews :
              (Waited(f) /\ host_read(TheDevice, f, view)) => lastCall'.ret = "result"]_vars

\* the fence table and the semaphore table of the device
FenceTable == DeviceOf(TheDevice).m_fenceMap

SemaphoreTable == DeviceOf(TheDevice).m_semaphoreMap

\* C19: submit_command_list of a list of the device creates a fence only when asked:
\* with a null fence out-pointer the fence table and the next fence id stay as they were
\* and no handle is written; with a non-null one exactly one new, unsignaled fence is
\* added to the table, the others stay as they were, the next fence id moves on by one
\* and the handle of the new fence is written to the out-parameter.
C19_FenceOnlyOnDemand ==
    [][\A wantFence \in BOOLEAN, wantSemaphore \in BOOLEAN :
          submit_command_list(TheList, wantFence, wantSemaphore) =>
              IF ~wantFence
              THEN /\ FenceTable' = FenceTable
                   /\ DeviceOf(TheDevice)'.m_nextFenceId = DeviceOf(TheDevice).m_nextFenceId
                   /\ lastCall'.out = NoHandle
              ELSE \E f \in ResourceIds \ DOMAIN FenceTable :
                      /\ FenceTable' = MapPut(FenceTable, f, "unsignaled")
                      /\ DeviceOf(TheDevice)'.m_nextFenceId =
                             DeviceOf(TheDevice).m_nextFenceId + 1
                      /\ lastCall'.out = Handle(TheDevice, f)]_vars

\* a submission without fence followed one with a fence: the fence of the first is in
\* the table and the last call wrote no handle
C19_Witness ==
    /\ lastCall.op = "submit_command_list"
    /\ lastCall.out = NoHandle
    /\ DOMAIN FenceTable # {}
    /\ DeviceOf(TheDevice).m_nextFenceId = Cardinality(DOMAIN FenceTable) + 1

\* C20: submit_command_list of a list of the device with a non-null semaphore
\* out-pointer creates a semaphore: a new entry is in the semaphore table, its handle is
\* written to the out-parameter and the submission signals it.
C20_SemaphoreOnDemand ==
    [][\A wantFence \in BOOLEAN :
          submit_command_list(TheList, wantFence, TRUE) =>
              \E sem \in ResourceIds \ DOMAIN SemaphoreTable :
                  /\ DOMAIN SemaphoreTable' = DOMAIN SemaphoreTable \cup {sem}
                  /\ lastCall'.out2 = Handle(TheDevice, sem)
                  /\ sem \in Device_submit_command_list(DeviceOf(TheDevice), TheList,
                                                        wantFence, TRUE).signalSemaphores]_vars

(***************************************************************************)
(* Destruction of device resources: the device of InitRecord, whose        *)
(* resources the host destroys and goes on using.                          *)
(***************************************************************************)
NextDestroy ==
    \/ \E installed \in BOOLEAN : set_error_callback(installed)
    \/ \E op \in DestroyOps : destroy_resource(op, TheResource)
    \/ map_buffer(TheResource)
    \/ unmap_buffer(TheResource)
    \/ Bracket(TheList)
    \/ bind_pipeline(TheList, TheResource)
    \/ bind_vertex_buffer(TheList, TheResource)
    \/ transition_texture(TheList, TheResource, "eUndefined", "eShaderRead")

SpecDestroy == InitRecord /\ [][NextDestroy]_vars

\* the table lookup that the operations given a handle of this kind make
Resolvable(op, dev, h) ==
    CASE op = "destroy_command_list" -> Device_get_command_list(dev, h)
      [] op = "destroy_pipeline"     -> Device_get_pipeline(dev, h)
      [] op = "destroy_buffer"       -> Device_get_buffer(dev, h)
      [] op = "destroy_texture"      -> Device_get_texture(dev, h)
      [] op = "destroy_swap_chain"   -> Device_get_swap_chain(dev, h)

\* C21: after destroy_buffer(h), destroy_texture(h), destroy_pipeline(h),
\* destroy_command_list(d, h) or destroy_swap_chain(h) the handle h is no longer
\* resolvable in the tables of its device, and map_buffer given a buffer handle that the
\* previous call destroyed reports not found.
C21_DestroyedHandleNotResolvable ==
    [][/\ \A op \in DestroyOps :
             destroy_resource(op, TheResource) =>
                 ~Resolvable(op, DeviceOf(TheResource.dev)', TheResource)
       /\ (lastCall.op = "destroy_buffer" /\ map_buffer(TheResource)) =>
              lastCall'.ret = "false"]_vars

(***************************************************************************)
(* Devices: the context and the creation and destruction of its devices,   *)
(* with the answers of the Vulkan loader.                                  *)
(***************************************************************************)
NextDevices ==
    \/ \E installed \in BOOLEAN : set_error_callback(installed)
    \/ initialise(TRUE, TRUE)
    \/ shutdown
    \/ \E outcome \in DeviceOutcomes, nQueues \in 0 .. MaxQueues : create_device(outcome, nQueues)
    \/ \E d \in DeviceIds : destroy_device(d)

SpecDevices == Init /\ [][NextDevices]_vars

FamilyLists ==
    UNION { [1 .. n -> (SUBSET VkQueueFlagBits) \ {{}}] : n \in 1 .. MaxFamilies }

RequestLists == UNION { [1 .. n -> SUBSET QueueFlagBits] : n \in 0 .. MaxQueues }

InitQueues ==
    /\ s_errorCallback = FALSE
    /\ s_context = NewContext(TRUE)
    /\ lastCall = Returned("initialise", "true")
    /\ issued = EmptyBag
    /\ epoch = 1
    /\ destroyed = {}
    /\ boundInScope = {}
    /\ lastTransition = EmptyMap
    /\ blocked = NoHandle
    /\ requested = {}
    /\ renderGraph = NewRenderGraph
    /\ vertexInput = NoVertexInput
    /\ \E queueProperties \in FamilyLists, queueFlags \in RequestLists :
          selection = [NoSelection EXCEPT !.queueProperties = queueProperties,
                                          !.queueFlags = queueFlags]

select_queue_families ==
    /\ ~selection.done
    /\ selection' = [selection EXCEPT
                        !.done = TRUE,
                        !.device = Device_select_queue_families(selection.queueProperties,
                                                                selection.queueFlags)]
    /\ UNCHANGED <<s_errorCallback, s_context, lastCall, issued, epoch, destroyed, boundInScope, lastTransition, requested, blocked, renderGraph, vertexInput>>

NextQueues == select_queue_families

SpecQueues == InitQueues /\ [][NextQueues]_vars

\* the families whose capabilities include every wanted bit
Supersets(queueProperties, wantedFlags) ==
    { k \in FamilyIndices(queueProperties) : wantedFlags \subseteq queueProperties[k + 1] }

\* C23: each requested mask is given the lowest-indexed family whose capabilities
\* are a superset of the requested bits, and a request that was given a family was
\* given one that has all of the requested capabilities.
C23_FirstSupersetFamily ==
    selection.done =>
        \A i \in 1 .. Len(selection.queueFlags) :
            LET wantedFlags == WantedFlags(selection.queueFlags[i])
                supersets == Supersets(selection.queueProperties, wantedFlags)
                given == Accepted(selection.queueProperties, wantedFlags) # {}
                family == selection.device.m_queueFamilies[i]
            IN  /\ supersets # {} => family = Lowest(supersets)
                /\ given => wantedFlags \subseteq selection.queueProperties[family + 1]

(***************************************************************************)
(* Render graphs: a graph the application has built with add_graphics_pass,*)
(* read, write, on_build and on_execute, then compiled, executed and       *)
(* given passes again.                                                     *)
(***************************************************************************)
PassNames == 1 .. MaxPasses

BuiltPasses ==
    { [NewRenderGraphPass(0) EXCEPT !.m_reads = reads, !.m_writes = writes,
                                    !.m_buildFunc = buildFunc, !.m_executeFunc = executeFunc] :
          reads \in SUBSET GraphTextures, writes \in SUBSET GraphTextures,
          buildFunc \in BOOLEAN, executeFunc \in BOOLEAN }

BuiltGraphs ==
    { [NewRenderGraph EXCEPT !.m_passMap = passMap] :
          passMap \in UNION { [1 .. n -> BuiltPasses] : n \in 0 .. MaxPasses } }

InitGraph ==
    /\ s_errorCallback = FALSE
    /\ s_context = NullContext
    /\ lastCall = NoCall
    /\ issued = EmptyBag
    /\ epoch = 0
    /\ destroyed = {}
    /\ boundInScope = {}
    /\ lastTransition = EmptyMap
    /\ blocked = NoHandle
    /\ requested = {}
    /\ selection = NoSelection
    /\ renderGraph \in BuiltGraphs
    /\ vertexInput = NoVertexInput

GraphStep(g) ==
    /\ renderGraph' = g
    /\ UNCHANGED <<s_errorCallback, s_context, lastCall, issued, epoch, destroyed, boundInScope, lastTransition, requested, blocked, selection, vertexInput>>

add_graphics_pass(passName) ==
    /\ passName \in DOMAIN renderGraph.m_passMap =>
           renderGraph.m_passMap[passName].object < MaxReplaced
    /\ GraphStep(RenderGraph_add_graphics_pass(renderGraph, passName))

compile == \E order \in IterationOrders(renderGraph) : GraphStep(RenderGraph_compile(renderGraph, order))

execute(commandListHandle) ==
    \E dangling \in DanglingOutcomes :
        GraphStep(RenderGraph_execute(renderGraph, commandListHandle, dangling))

NextGraph ==
    \/ \E passName \in PassNames : add_graphics_pass(passName)
    \/ compile
    \/ \E commandListHandle \in {NoHandle, TheList} : execute(commandListHandle)

SpecGraph == InitGraph /\ [][NextGraph]_vars

\* pass name needs what pass other writes: name reads a texture that other writes
DependsOn(g, name, other) ==
    name # other /\ g.m_passMap[name].m_reads \cap g.m_passMap[other].m_writes # {}

RECURSIVE ReachesIn(_, _, _, _)
\* a chain of at most n dependencies leads from name to other
ReachesIn(g, name, other, n) ==
    IF n = 0 THEN FALSE
    ELSE \/ DependsOn(g, name, other)
         \/ \E mid \in DOMAIN g.m_passMap :
                DependsOn(g, name, mid) /\ ReachesIn(g, mid, other, n - 1)

\* some pass needs, through a chain of other passes, what it writes itself
IsCyclic(g) ==
    \E name \in DOMAIN g.m_passMap :
        ReachesIn(g, name, name, Cardinality(DOMAIN g.m_passMap))

\* the position of the pass added under name in the execution order, 0 if it has none
PositionOf(g, name) ==
    IF \E i \in DOMAIN g.m_executionOrder : g.m_executionOrder[i].name = name
    THEN CHOOSE i \in DOMAIN g.m_executionOrder : g.m_executionOrder[i].name = name
    ELSE 0

\* C24: when compile() has returned true for a graph without a dependency cycle, every
\* pass stands in the execution order after every pass that writes a texture it reads.
C24_OrderRespectsDependencies ==
    (renderGraph.last.op = "compile" /\ renderGraph.last.ret = "true"
     /\ ~IsCyclic(renderGraph)) =>
        \A name, other \in DOMAIN renderGraph.m_passMap :
            DependsOn(renderGraph, name, other) =>
                PositionOf(renderGraph, other) < PositionOf(renderGraph, name)

\* C25: compile() returns false for a graph whose dependencies form a cycle.
C25_CycleFailsCompile ==
    (renderGraph.last.op = "compile" /\ IsCyclic(renderGraph)) =>
        renderGraph.last.ret = "false"

\* the number of entries of the sequence equal to x
Occurrences(seq, x) == Cardinality({ i \in DOMAIN seq : seq[i] = x })

\* C26: a compile() of a graph whose passes all have a build callback, whether the
\* first or a repeated one, returns true and has invoked the build callback of every pass exactly once
\* and no other callback, and leaves an execution order that holds every pass of the
\* graph exactly once and nothing else.
C26_CompileBuildsEachPassOnce ==
    (/\ renderGraph.last.op = "compile"
     /\ \A name \in DOMAIN renderGraph.m_passMap : renderGraph.m_passMap[name].m_buildFunc) =>
        /\ renderGraph.last.ret = "true"
        /\ \A name \in DOMAIN renderGraph.m_passMap :
              /\ Occurrences(renderGraph.last.calls, BuildCall(PassPointer(renderGraph, name))) = 1
              /\ Occurrences(renderGraph.m_executionOrder, PassPointer(renderGraph, name)) = 1
        /\ Len(renderGraph.last.calls) = Cardinality(DOMAIN renderGraph.m_passMap)
        /\ Len(renderGraph.m_executionOrder) = Cardinality(DOMAIN renderGraph.m_passMap)

\* compile() has returned true on a graph of two passes that was compiled before
C26_Witness ==
    /\ renderGraph.last.op = "compile"
    /\ renderGraph.last.ret = "true"
    /\ renderGraph.last.over > 0
    /\ Cardinality(DOMAIN renderGraph.m_passMap) = MaxPasses

\* C27: an execute() made while every pass of the compiled order is still owned by
\* the graph and has an execute callback returns after it has invoked the execute
\* callback of each pass of the order exactly once, in the order compiled, each with
\* the handle it was given, and no other callback.
C27_ExecuteRunsCompiledOrder ==
    (/\ renderGraph.last.op = "execute"
     /\ \A i \in DOMAIN renderGraph.m_executionOrder :
            /\ IsLivePass(renderGraph, renderGraph.m_executionOrder[i])
            /\ renderGraph.m_passMap[renderGraph.m_executionOrder[i].name].m_executeFunc) =>
        /\ renderGraph.last.ret = "void"
        /\ Len(renderGraph.last.calls) = Len(renderGraph.m_executionOrder)
        /\ \A i \in DOMAIN renderGraph.m_executionOrder :
              renderGraph.last.calls[i] =
                  ExecuteCall(renderGraph.m_executionOrder[i], renderGraph.last.arg)

\* execute() has run a compiled order of two passes with the handle of a command list
C27_Witness ==
    /\ renderGraph.last.op = "execute"
    /\ renderGraph.last.ret = "void"
    /\ renderGraph.last.arg = TheList
    /\ Len(renderGraph.m_executionOrder) = MaxPasses
    /\ Len(renderGraph.last.calls) = MaxPasses
    /\ \A i \in DOMAIN renderGraph.m_executionOrder :
           IsLivePass(renderGraph, renderGraph.m_executionOrder[i])

(***************************************************************************)
(* Swap chains: one device with one queue, the swap chain of its window    *)
(* and the textures its caller creates.                                    *)
(***************************************************************************)
InitSwapChain ==
    /\ s_errorCallback = FALSE
    /\ s_context = [NewContext(TRUE) EXCEPT
                       !.m_nextDeviceId = 2,
                       !.m_deviceMap = MapPut(EmptyMap, TheDevice, NewDevice(TheDevice, 1))]
    /\ lastCall = Created("create_device", Handle(TheDevice, 0))
    /\ issued = SetToBag({ [epoch |-> 1, type |-> "device", on |-> 0,
                            handle |-> Handle(TheDevice, 0)] })
    /\ epoch = 1
    /\ destroyed = {}
    /\ boundInScope = {}
    /\ lastTransition = EmptyMap
    /\ blocked = NoHandle
    /\ selection = NoSelection
    /\ renderGraph = NewRenderGraph
    /\ vertexInput = NoVertexInput
    /\ requested = {}

SwapChainHandles == { Handle(TheDevice, r) : r \in ResourceIds }

NextSwapChain ==
    \/ \E installed \in BOOLEAN : set_error_callback(installed)
    \/ create_texture(TheDevice)
    \/ \E n \in 1 .. MaxImages, index \in 0 .. MaxImages - 1 :
           /\ index < n
           /\ DOMAIN DeviceOf(TheDevice).m_swapChainMap = {}
           /\ create_swap_chain(TheDevice, n, index)
    \/ \E h \in SwapChainHandles, n \in 1 .. MaxImages : resize(h, n)
    \/ \E h \in SwapChainHandles, index \in 0 .. MaxImages - 1 : present_swap_chain(h, 0, index)
    \/ \E h \in SwapChainHandles : get_swap_chain_image(h)

SpecSwapChain == InitSwapChain /\ [][NextSwapChain]_vars

SwapChainOf(h) == DeviceOf(h.dev).m_swapChainMap[h.res]

\* C28: present of a swap chain issues, in this order, presentKHR for the current
\* image index of the current chain, acquireNextImageKHR with the unsignalled swap-chain
\* fence, waitForFences on that fence once signalled, and resetFences; when it returns
\* the index is the one acquired and the fence is unsignalled.
C28_PresentThenAcquireWaitReset ==
    [][\A h \in SwapChainHandles, index \in 0 .. MaxImages - 1 :
          (Device_get_swap_chain(DeviceOf(h.dev), h) /\ present_swap_chain(h, 0, index)) =>
              LET calls == lastCall'.cmd.calls
              IN  /\ [i \in DOMAIN calls |-> calls[i].name] =
                         <<"presentKHR", "acquireNextImageKHR", "waitForFences", "resetFences">>
                  /\ calls[1].index = SwapChainOf(h).m_imageIndex
                  /\ \A i \in DOMAIN calls : calls[i].swapChain = SwapChainOf(h).m_swapChain
                  /\ calls[2].fence = "unsignaled"
                  /\ calls[3].fence = "signaled"
                  /\ SwapChainOf(h)'.m_imageIndex = index
                  /\ SwapChainOf(h)'.m_fence = "unsignaled"]_vars

\* present has returned on a swap chain of two images, the index moved on to image 1
C28_Witness ==
    /\ lastCall.op = "present_swap_chain"
    /\ lastCall.cmd.name = "present"
    /\ lastCall.cmd.calls[1].index = 0
    /\ \E h \in SwapChainHandles :
          /\ Device_get_swap_chain(DeviceOf(h.dev), h)
          /\ SwapChainOf(h).m_imageIndex = 1

\* C29: a swap chain just created holds an index acquired from its chain, resize
\* leaves the swap chain with an index acquired from the chain it created, and every
\* present and every get_swap_chain_image finds an index acquired from the current chain.
C29_IndexOfNewestChain ==
    [][\A h \in SwapChainHandles :
          /\ \A n \in 1 .. MaxImages, index \in 0 .. MaxImages - 1 :
                (create_swap_chain(TheDevice, n, index) /\ lastCall'.out = h) =>
                    SwapChainOf(h)'.acquired = SwapChainOf(h)'.m_swapChain
          /\ \A n \in 1 .. MaxImages :
                resize(h, n) => SwapChainOf(h)'.acquired = SwapChainOf(h)'.m_swapChain
          /\ (/\ Device_get_swap_chain(DeviceOf(h.dev), h)
              /\ \/ get_swap_chain_image(h)
                 \/ \E index \in 0 .. MaxImages - 1 : present_swap_chain(h, 0, index)) =>
                    SwapChainOf(h).acquired = SwapChainOf(h).m_swapChain]_vars

\* handles of the textures the caller of the device created
CallerTextures ==
    { i.handle : i \in { j \in BagToSet(issued) : j.type = "texture" /\ j.on = TheDevice } }

SeqRange(seq) == { seq[i] : i \in DOMAIN seq }

\* C30: after resize the handles of the images the swap chain had before do not
\* resolve in the texture table of the device, and the table holds the wrappers of the
\* images of the swap chains of the device and the textures the caller created, no other.
C30_ResizeDestroysPriorWrappers ==
    [][\A h \in SwapChainHandles, n \in 1 .. MaxImages :
          resize(h, n) =>
              /\ \A prior \in SeqRange(SwapChainOf(h).m_imageHandles) :
                    ~Device_get_texture(DeviceOf(TheDevice)', prior)
              /\ DOMAIN DeviceOf(TheDevice)'.m_textureMap =
                    { t.res : t \in CallerTextures'
                                   \cup UNION { SeqRange(DeviceOf(TheDevice)'.m_swapChainMap[c].m_imageHandles) :
                                                c \in DOMAIN DeviceOf(TheDevice)'.m_swapChainMap } }]_vars

(***************************************************************************)
(* Vertex input over the attribute lists a GraphicsPipelineInfo can hold.  *)
(***************************************************************************)
AttributeLists ==
    UNION { [1 .. n -> { [name |-> "attribute", format |-> f] : f \in Formats }] :
            n \in 0 .. MaxAttributes }

InitVertexInput ==
    /\ s_errorCallback = FALSE
    /\ s_context = NewContext(TRUE)
    /\ lastCall = Returned("initialise", "true")
    /\ issued = EmptyBag
    /\ epoch = 1
    /\ destroyed = {}
    /\ boundInScope = {}
    /\ lastTransition = EmptyMap
    /\ blocked = NoHandle
    /\ requested = {}
    /\ selection = NoSelection
    /\ renderGraph = NewRenderGraph
    /\ \E vertexAttributes \in AttributeLists :
          vertexInput = [NoVertexInput EXCEPT !.vertexAttributes = vertexAttributes]

build_vertex_input ==
    /\ ~vertexInput.done
    /\ vertexInput' = [vertexInput EXCEPT
                          !.done = TRUE,
                          !.state = GraphicsPipeline_vertex_input(vertexInput.vertexAttributes)]
    /\ UNCHANGED <<s_errorCallback, s_context, lastCall, issued, epoch, destroyed, boundInScope, lastTransition, requested, blocked, selection, renderGraph>>

NextVertexInput == build_vertex_input

SpecVertexInput == InitVertexInput /\ [][NextVertexInput]_vars

\* C31: for every list of declared attributes the vertex input is built without a
\* failed assertion, attribute i (counted from 0) has location i and binding 0, its
\* offset is the sum of the byte sizes of the attributes before it, and the stride of
\* binding 0 is the sum of the byte sizes of all attributes.
C31_InterleavedVertexLayout ==
    vertexInput.done =>
        LET declared == vertexInput.vertexAttributes
            built == vertexInput.state
        IN  /\ ~built.asserted
            /\ Len(built.vk_attributes) = Len(declared)
            /\ \A i \in DOMAIN declared :
                  /\ built.vk_attributes[i].location = i - 1
                  /\ built.vk_attributes[i].binding = 0
                  /\ built.vk_attributes[i].offset = StrideAfter(declared, i - 1)
            /\ built.vk_binding.binding = 0
            /\ built.vk_binding.stride = StrideAfter(declared, Len(declared))

\* C32: a begin() on a list that has begun, an end() on a list that has not begun and
\* a bind_descriptor_set() on a recording list without a bound pipeline return to the
\* caller (no exception leaves the call) and leave the context as it was, whether or
\* not an error callback is installed.
C32_MisuseIsNoOp ==
    [][(\/ ListOf(TheList).m_hasBegun /\ begin(TheList)
        \/ ~ListOf(TheList).m_hasBegun /\ end(TheList)
        \/ /\ ListOf(TheList).m_hasBegun
           /\ ListOf(TheList).m_boundPipeline = 0
           /\ bind_descriptor_set(TheList, TheResource)) =>
           /\ lastCall'.thrown = "none"
           /\ lastCall'.cmd = NoCmd
           /\ s_context' = s_context]_vars

(***************************************************************************)
(* Teardown: one device with a command list, its submissions, the GPU and  *)
(* destroy_device.                                                         *)
(***************************************************************************)
NextTeardown ==
    \/ \E installed \in BOOLEAN : set_error_callback(installed)
    \/ \E wantFence \in BOOLEAN : submit_command_list(TheList, wantFence, FALSE)
    \/ \E f \in ResourceIds : gpu_completes(TheDevice, f)
    \/ Bracket(TheList)
    \/ dispatch(TheList)
    \/ destroy_device(TheDevice)

SpecTeardown == InitFence /\ [][NextTeardown]_vars

\* C33: destroy_device called while submissions of the device have not completed
\* returns at once, with those submissions still incomplete, and the device with its
\* command lists and fences is gone from the context.
C33_DestroyDeviceDoesNotWait ==
    [][(Pending(TheDevice) # {} /\ destroy_device(TheDevice)) =>
           /\ lastCall'.ret = "void"
           /\ lastCall'.cmd.name = "destroy"
           /\ lastCall'.cmd.pending = Pending(TheDevice)
           /\ blocked' = NoHandle
           /\ ~Context_get_device(TheDevice)']_vars

\* the device was destroyed while a submission was incomplete
C33_Witness ==
    /\ lastCall.op = "destroy_device"
    /\ lastCall.cmd.name = "destroy"
    /\ lastCall.cmd.pending # {}
    /\ TheDevice \in destroyed
    /\ ~Context_get_device(TheDevice)

\* C34: a begin() that returns does so with true exactly when the command list went from
\* not begun to begun in this call.
C34_BeginReturnsWhetherItBegan ==
    [][(begin(TheList) /\ lastCall'.thrown = "none") =>
           (lastCall'.ret = "true" <=>
                /\ Device_get_command_list(DeviceOf(TheList.dev), TheList)
                /\ ~ListOf(TheList).m_hasBegun
                /\ ListOf(TheList)'.m_hasBegun)]_vars

\* C35: every entry of the execution order points to a pass that the pass map owns, and
\* execute() calls no pass that a later add_graphics_pass of the same name replaced.
C35_ExecutionOrderOwnedByPassMap ==
    /\ \A i \in DOMAIN renderGraph.m_executionOrder :
           IsLivePass(renderGraph, renderGraph.m_executionOrder[i])
    /\ renderGraph.last.op = "execute" =>
           /\ renderGraph.last.ret \in {"void", "bad_function_call"}
           /\ \A i \in DOMAIN renderGraph.last.calls :
                  IsLivePass(renderGraph, renderGraph.last.calls[i].pass)

\* C36: the current image index of every swap chain is below the number of its image
\* handles, and get_swap_chain_image on a swap chain returns a texture handle.
C36_ImageIndexInRange ==
    /\ \A h \in SwapChainHandles :
           (Context_is_valid /\ Context_get_device(h.dev)
               /\ Device_get_swap_chain(DeviceOf(h.dev), h)) =>
               SwapChainOf(h).m_imageIndex < Len(SwapChainOf(h).m_imageHandles)
    /\ lastCall.op = "get_swap_chain_image" => lastCall.thrown = "none"

\* C37: wait_on_fence with a fence handle of a live device that is not in the fence table
\* returns normally without waiting and leaves the context as it was.
C37_UnknownFenceNotFound ==
    [][\A h \in FenceHandles :
          (/\ Context_get_device(h.dev)
           /\ h.res \notin DOMAIN DeviceOf(h.dev).m_fenceMap
           /\ wait_on_fence(h)) =>
              /\ lastCall'.thrown = "none"
              /\ lastCall'.ret = "void"
              /\ blocked' = NoHandle
              /\ s_context' = s_context]_vars

(***************************************************************************)
(* Queue indices: one device with its queues, command lists and a swap     *)
(* chain, called with queue indices below, at and above the queue count.   *)
(***************************************************************************)
NextQueueIndex ==
    \/ \E installed \in BOOLEAN : set_error_callback(installed)
    \/ \E queueIndex \in QueueIndices : create_command_list(TheDevice, queueIndex)
    \/ \E n \in 1 .. MaxImages :
           /\ DOMAIN DeviceOf(TheDevice).m_swapChainMap = {}
           /\ create_swap_chain(TheDevice, n, 0)
    \/ \E h \in SwapChainHandles, queueIndex \in QueueIndices, index \in 0 .. MaxImages - 1 :
           present_swap_chain(h, queueIndex, index)

SpecQueueIndex == InitSwapChain /\ [][NextQueueIndex]_vars

\* C38: with a queue index that is not below the number of queues of the device,
\* present_swap_chain returns having done nothing and create_command_list returns false
\* and creates nothing.
C38_QueueIndexOutOfRangeFails ==
    [][\A queueIndex \in QueueIndices :
          queueIndex >= DeviceOf(TheDevice).m_queues =>
              /\ create_command_list(TheDevice, queueIndex) =>
                     /\ lastCall'.thrown = "none"
                     /\ lastCall'.ret = "false"
                     /\ s_context' = s_context
              /\ \A h \in SwapChainHandles, index \in 0 .. MaxImages - 1 :
                     present_swap_chain(h, queueIndex, index) =>
                         /\ lastCall'.thrown = "none"
                         /\ lastCall'.ret = "void"
                         /\ lastCall'.cmd = NoCmd
                         /\ s_context' = s_context]_vars

(***************************************************************************)
(* Lifetime of the context: initialise() with each answer of the Vulkan    *)
(* loader, shutdown(), and the devices of the context.                     *)
(***************************************************************************)
NextInitialise ==
    \/ \E installed \in BOOLEAN : set_error_callback(installed)
    \/ \E instanceOk \in BOOLEAN, messengerOk \in BOOLEAN : initialise(instanceOk, messengerOk)
    \/ shutdown
    \/ \E outcome \in DeviceOutcomes, nQueues \in 0 .. MaxQueues : create_device(outcome, nQueues)
    \/ \E d \in DeviceIds : destroy_device(d)

SpecInitialise == Init /\ [][NextInitialise]_vars

\* the last call was an initialise() whose context came out invalid
InitialiseFailed ==
    /\ lastCall.op = "initialise"
    /\ lastCall.ret = "false"
    /\ lastCall.err = "Failed to create Vulkan instance!"

\* C39: initialise() while a context exists returns false and leaves the context with its
\* devices as it was; initialise() on a working loader after shutdown(), or right after an
\* initialise() that failed, returns true and leaves a valid context.
C39_OneContextAtATime ==
    [][/\ \A instanceOk \in BOOLEAN, messengerOk \in BOOLEAN :
              (Context_is_valid /\ initialise(instanceOk, messengerOk)) =>
                  /\ lastCall'.ret = "false"
                  /\ s_context' = s_context
       /\ ((lastCall.op = "shutdown" \/ InitialiseFailed) /\ initialise(TRUE, TRUE)) =>
              /\ lastCall'.ret = "true"
              /\ Context_is_valid']_vars

(***************************************************************************)
(* Descriptor sets from pipelines: one device, its pipelines, and          *)
(* create_descriptor_set_from_pipeline with known and unknown pipeline     *)
(* handles and set indices below and at the number of set layouts.         *)
(***************************************************************************)
PipelineHandles == { Handle(TheDevice, r) : r \in ResourceIds }

NextSetIndex ==
    \/ \E installed \in BOOLEAN : set_error_callback(installed)
    \/ \E infos \in {<< >>, OneSet} : create_compute_pipeline(TheDevice, infos)
    \/ \E infos \in {<< >>, OneSet} : create_graphics_pipeline(TheDevice, infos)
    \/ \E h \in PipelineHandles, set \in 0 .. MaxSets :
           create_descriptor_set_from_pipeline(h, set)

SpecSetIndex == InitSwapChain /\ [][NextSetIndex]_vars

\* C40: create_descriptor_set_from_pipeline with a pipeline handle that is not in the
\* pipeline table, or with a set index that is not below the number of set layouts of
\* the pipeline, returns false and leaves the device, with its descriptor-set table and
\* next descriptor-set id, as it was.
C40_BadPipelineOrSetFails ==
    [][\A h \in PipelineHandles, set \in 0 .. MaxSets :
          (/\ \/ ~Device_get_pipeline(DeviceOf(TheDevice), h)
              \/ set >= Len(DeviceOf(TheDevice).m_pipelineMap[h.res].m_setLayouts)
           /\ create_descriptor_set_from_pipeline(h, set)) =>
              /\ lastCall'.thrown = "none"
              /\ lastCall'.ret = "false"
              /\ s_context' = s_context]_vars

====
